---------------------------- MODULE Spec2Model ----------------------------
(***************************************************************************)
(* A model of the ledger/transfer engine of smartrics/golang-tutorial:     *)
(* the in-memory ledger store (bankService), the account values it works   *)
(* on, the transfer pipeline decorators and the worker-pool job processor. *)
(*                                                                         *)
(* float64 amounts and balances are modelled by small integers; strings    *)
(* are TLA+ strings (\o is Go's concatenation / Sprintf("%s-%s")).         *)
(***************************************************************************)
EXTENDS Integers, Sequences, FiniteSets, TLC

VARIABLES
    transactions,   \* bankService.transactions: map[AccountID][]Transaction
    history,        \* every successful Transfer so far, in order of completion
    call,           \* the ledger call the client made last, with what it returned
    pipeline,       \* asyncProcessor.pipeline: the decorators around the core, outermost first
    workers,        \* asyncProcessor.workers
    started,        \* Start has been called
    jobs,           \* asyncProcessor.jobs: the buffered channel of submitted jobs
    wg,             \* asyncProcessor.wg: the WaitGroup counter
    stopCh,         \* asyncProcessor.stopCh: "open" or "closed"
    closes,         \* how many times close(stopCh) has been executed
    onceDone,       \* asyncProcessor.stopOnce has run its function
    ctxDone,        \* the context passed to Start is cancelled
    wk,             \* the worker goroutines: where each is and the job it holds
    pipe,           \* the goroutines process() spawns, one per job taken
    cancelled,      \* the jobs whose own context is done
    done,           \* the jobs' Done channels: what has been written to each
    audit,          \* the slice the audit sink appends to
    sub,            \* the callers of Submit
    stop,           \* the callers of Stop
    submits,        \* Submit calls made so far
    crashed,        \* a goroutine panicked: the process is gone
    registry,       \* accountRegistry.accounts: map[string]BankAccount
    onDone,         \* transferEngine.onDone: the registered completion callback
    auditLog,       \* the package-level auditLog of the engine
    eng,            \* the callers of SubmitTransfer
    obs,            \* the observer goroutines SubmitTransfer spawns
    calls,          \* the invocations of completion callbacks, in order
    mu,             \* ConcurrentBankService.mu: the goroutine that holds it, or 0
    svc,            \* the callers of ConcurrentBankService
    rwmu,           \* accountRegistry.mu: its writer and its readers
    reg,            \* the callers of the registry's Register and Get
    dec,            \* an invocation of a decorated TransferFunc
    auditMu,        \* the engine's auditMu: the goroutine that holds it, or << >>
    rd,             \* the callers of AuditLog
    http,           \* the requests POST /accounts being handled
    acct            \* a call of Withdraw or Deposit on an account

ledgerVars == <<transactions, history, call>>

procVars ==
    <<pipeline, workers, started, jobs, wg, stopCh, closes, onceDone, ctxDone, wk,
      pipe, cancelled, done, audit, sub, stop, submits, crashed>>

engVars == <<registry, onDone, auditLog, eng, obs, calls>>

apiVars == <<auditMu, rd, http, acct>>

sideVars == <<mu, svc, rwmu, reg, dec, apiVars>>

vars == <<transactions, history, call, pipeline, workers, started, jobs, wg, stopCh,
          closes, onceDone, ctxDone, wk, pipe, cancelled, done, audit,
          sub, stop, submits, crashed, registry, onDone, auditLog, eng, obs, calls,
          mu, svc, rwmu, reg, dec, auditMu, rd, http, acct>>

-----------------------------------------------------------------------------
(* Bounds of the model *)

MaxTransfers == 2       \* successful transfers recorded in one run
MaxAmount == 3          \* amounts range over -1 .. MaxAmount
MaxBalance == 1         \* balances of the input accounts range over 1 .. MaxBalance
MaxOverdraft == 1       \* overdraft limit of the checking accounts

TransferIDs == {"A", "B"}
AccountIDs == TransferIDs \cup {"C"}
Amounts == -1 .. MaxAmount
Balances == 1 .. MaxBalance
References == {"r1", "r2"}

-----------------------------------------------------------------------------
(* Errors: an error value is what errors.Is matches it against (the chain   *)
(* built with %w) and its message.  NoError is Go's nil error.              *)

NoError == [nil |-> TRUE, is |-> {}, msg |-> ""]

NewError(name, text) == [nil |-> FALSE, is |-> {name}, msg |-> text]

\* fmt.Errorf("%w: " + text, inner): the new error wraps inner
WrapBefore(name, inner, text) ==
    [nil |-> FALSE, is |-> inner.is \cup {name}, msg |-> inner.msg \o ": " \o text]

\* fmt.Errorf("%v: %w", cause, sentinel): only the sentinel is wrapped, the
\* cause is formatted into the message
WrapAfter(cause, sentinel) ==
    [nil |-> FALSE, is |-> sentinel.is, msg |-> cause.msg \o ": " \o sentinel.msg]

\* fmt.Errorf("%w: " + text, sentinel) without a name of its own
WrapText(sentinel, text) ==
    [nil |-> FALSE, is |-> sentinel.is, msg |-> sentinel.msg \o ": " \o text]

Is(err, name) == (~err.nil) /\ name \in err.is

ErrNegativeAmount == NewError("ErrNegativeAmount", "amount must be >= 0")
ErrWithdrawNegativeAmount ==
    WrapBefore("ErrWithdrawNegativeAmount", ErrNegativeAmount, "cannot withdraw")
ErrDepositNegativeAmount ==
    WrapBefore("ErrDepositNegativeAmount", ErrNegativeAmount, "cannot deposit")
ErrInsufficientFunds == NewError("ErrInsufficientFunds", "insufficient funds")
ErrInvalidOverdraftLimit == NewError("ErrInvalidOverdraftLimit", "invalid overdraft limit")
ErrInvalidInterestRate == NewError("ErrInvalidInterestRate", "invalid interest rate")

ErrInvalidAccount == NewError("ErrInvalidAccount", "invalid account")
ErrFromAccountWithdrawal ==
    NewError("ErrFromAccountWithdrawal", "withdrawal failed from account")
ErrToAccountDeposit == NewError("ErrToAccountDeposit", "deposit failed to account")
ErrSelfTransferDisallowed ==
    NewError("ErrSelfTransferDisallowed", "transfer from/to the same account is disallowed")

-----------------------------------------------------------------------------
(* Accounts.  kind is the dynamic type behind the BankAccount interface;    *)
(* counted says the value is wrapped in an AccountWithCounter, whose        *)
(* TransactionCounter holds count.  Nil is the nil interface.               *)

Nil ==
    [kind |-> "nil", id |-> "", balance |-> 0, overdraftLimit |-> 0,
     interestRate |-> 0, counted |-> FALSE, count |-> 0]

NewBankAccount(id, balance) ==
    [kind |-> "base", id |-> id, balance |-> balance, overdraftLimit |-> 0,
     interestRate |-> 0, counted |-> FALSE, count |-> 0]

NewCheckingAccount(id, balance, overdraftLimit) ==
    IF overdraftLimit < 0 THEN [acc |-> Nil, err |-> ErrInvalidOverdraftLimit]
    ELSE IF balance < -overdraftLimit THEN [acc |-> Nil, err |-> ErrInsufficientFunds]
    ELSE [acc |-> [kind |-> "checking", id |-> id, balance |-> balance,
                   overdraftLimit |-> overdraftLimit, interestRate |-> 0,
                   counted |-> FALSE, count |-> 0],
          err |-> NoError]

NewSavingAccount(id, balance, interestRate) ==
    IF interestRate < 0 \/ interestRate > 1
    THEN [acc |-> Nil, err |-> ErrInvalidInterestRate]
    ELSE [acc |-> [kind |-> "savings", id |-> id, balance |-> balance,
                   overdraftLimit |-> 0, interestRate |-> interestRate,
                   counted |-> FALSE, count |-> 0],
          err |-> NoError]

\* newAccountWithCounterSet(inner, txCount)
newAccountWithCounterSet(inner, txCount) ==
    [inner EXCEPT !.counted = TRUE, !.count = txCount]

NewAccountWithCounter(inner) == newAccountWithCounterSet(inner, 0)

\* the embedded BankAccount of an AccountWithCounter
Embedded(a) == [a EXCEPT !.counted = FALSE, !.count = 0]

ID(a) == a.id
Balance(a) == a.balance

\* A variant of bankAccount.Withdraw that refuses amount >= balance
bankAccountWithdrawKeepsOne(a, amount) ==
    IF amount < 0 THEN [acc |-> a, err |-> ErrWithdrawNegativeAmount]
    ELSE IF amount >= a.balance THEN [acc |-> a, err |-> ErrInsufficientFunds]
    ELSE [acc |-> NewBankAccount(a.id, a.balance - amount), err |-> NoError]

\* bankAccount.Withdraw, also the method of a savingsAccount (promoted)
bankAccountWithdraw(a, amount) ==
    IF amount < 0 THEN [acc |-> a, err |-> ErrWithdrawNegativeAmount]
    ELSE IF amount > a.balance THEN [acc |-> a, err |-> ErrInsufficientFunds]
    ELSE [acc |-> NewBankAccount(a.id, a.balance - amount), err |-> NoError]

\* A variant of bankAccount.Deposit without the test of the amount
bankAccountDepositAnyAmount(a, amount) ==
    [acc |-> NewBankAccount(a.id, a.balance + amount), err |-> NoError]

\* bankAccount.Deposit, also the method of savings and checking accounts
bankAccountDeposit(a, amount) ==
    IF amount < 0 THEN [acc |-> a, err |-> ErrDepositNegativeAmount]
    ELSE [acc |-> NewBankAccount(a.id, a.balance + amount), err |-> NoError]

\* checkingAccount.Withdraw shadows bankAccount.Withdraw
checkingAccountWithdraw(c, amount) ==
    NewCheckingAccount(c.id, c.balance - amount, c.overdraftLimit)

\* the method the unwrapped value's dynamic type selects
innerWithdraw(a, amount) ==
    IF a.kind = "checking" THEN checkingAccountWithdraw(a, amount)
    ELSE bankAccountWithdraw(a, amount)

\* Withdraw through the BankAccount interface.  recv is the receiver after the
\* call: value receivers are left as they were, an AccountWithCounter has its
\* own counter incremented when the inner withdrawal succeeded.
Withdraw(a, amount) ==
    IF a.counted
    THEN LET r == innerWithdraw(Embedded(a), amount)
             n == IF r.err = NoError THEN a.count + 1 ELSE a.count
         IN [acc |-> newAccountWithCounterSet(r.acc, n), err |-> r.err,
             recv |-> [a EXCEPT !.count = n]]
    ELSE LET r == innerWithdraw(a, amount)
         IN [acc |-> r.acc, err |-> r.err, recv |-> a]

\* Deposit through the BankAccount interface
Deposit(a, amount) ==
    IF a.counted
    THEN LET r == bankAccountDeposit(Embedded(a), amount)
             n == IF r.err = NoError THEN a.count + 1 ELSE a.count
         IN [acc |-> newAccountWithCounterSet(r.acc, n), err |-> r.err,
             recv |-> [a EXCEPT !.count = n]]
    ELSE LET r == bankAccountDeposit(a, amount)
         IN [acc |-> r.acc, err |-> r.err, recv |-> a]

-----------------------------------------------------------------------------
(* Transactions and the ledger store *)

NewTransaction(id, from, to, amount, reference) ==
    [id |-> id, from |-> from, to |-> to, amount |-> amount, reference |-> reference]

\* TransactionID(fmt.Sprintf("%s-%s", fromAccount.ID(), toAccount.ID()))
TransactionID(fromID, toID) == fromID \o "-" \o toID

\* NewBankService: an empty map
NewBankService == << >>

\* a slip of addTransaction: the list is overwritten instead of appended to
addTransactionOverwrites(txs, accountID, transaction) ==
    IF accountID \notin DOMAIN txs
    THEN txs @@ (accountID :> <<transaction>>)
    ELSE [txs EXCEPT ![accountID] = <<transaction>>]

\* A variant of addTransaction that puts the transaction in front of the list
addTransactionInFront(txs, accountID, transaction) ==
    IF accountID \notin DOMAIN txs
    THEN txs @@ (accountID :> <<transaction>>)
    ELSE [txs EXCEPT ![accountID] = <<transaction>> \o @]

\* bankService.addTransaction: a missing key reads as the nil list
addTransaction(txs, accountID, transaction) ==
    IF accountID \notin DOMAIN txs
    THEN txs @@ (accountID :> <<transaction>>)
    ELSE [txs EXCEPT ![accountID] = Append(@, transaction)]

\* a slip of the self-transfer test: the two handles are compared, not their ids
sameHandle(fromAccount, toAccount) == toAccount = fromAccount

\* the self-transfer test of Transfer
sameIdentifier(fromAccount, toAccount) == ID(toAccount) = ID(fromAccount)

\* bankService.Transfer: what it returns, the map it leaves and the two
\* argument objects as the call leaves them
Transfer(txs, fromAccount, toAccount, amount, reference) ==
    LET failed(e, f, t) ==
            [newFrom |-> Nil, newTo |-> Nil, err |-> e, transactions |-> txs,
             fromAfter |-> f, toAfter |-> t]
    IN
    IF toAccount = Nil \/ fromAccount = Nil
    THEN failed(WrapText(ErrInvalidAccount, "both accounts must be provided"),
                fromAccount, toAccount)
    ELSE IF sameIdentifier(fromAccount, toAccount)
    THEN failed(WrapText(ErrSelfTransferDisallowed,
                         "cannot transfer to/from the same account"),
                fromAccount, toAccount)
    ELSE
    LET w == Withdraw(fromAccount, amount) IN
    IF w.err # NoError
    THEN failed(WrapAfter(w.err, ErrFromAccountWithdrawal), w.recv, toAccount)
    ELSE
    LET d == Deposit(toAccount, amount) IN
    IF d.err # NoError
    THEN failed(WrapAfter(d.err, ErrToAccountDeposit), w.recv, d.recv)
    ELSE
    LET t == NewTransaction(TransactionID(ID(fromAccount), ID(toAccount)),
                            ID(fromAccount), ID(toAccount), amount, reference)
    IN [newFrom |-> w.acc, newTo |-> d.acc, err |-> NoError,
        transactions |->
            addTransaction(addTransaction(txs, ID(fromAccount), t), ID(toAccount), t),
        fromAfter |-> w.recv, toAfter |-> d.recv]

\* a slip of GetStatement: the nil list of an unused account is handed out as it is
GetStatementNilForUnused(txs, account) ==
    IF account = Nil
    THEN [list |-> << >>, null |-> TRUE,
          err |-> WrapText(ErrInvalidAccount, "account must be provided")]
    ELSE IF ID(account) \notin DOMAIN txs
    THEN [list |-> << >>, null |-> TRUE, err |-> NoError]
    ELSE [list |-> txs[ID(account)], null |-> FALSE, err |-> NoError]

\* bankService.GetStatement: null says the returned slice is nil
GetStatement(txs, account) ==
    IF account = Nil
    THEN [list |-> << >>, null |-> TRUE,
          err |-> WrapText(ErrInvalidAccount, "account must be provided")]
    ELSE IF ID(account) \notin DOMAIN txs
    THEN [list |-> << >>, null |-> FALSE, err |-> NoError]
    ELSE [list |-> txs[ID(account)], null |-> FALSE, err |-> NoError]

-----------------------------------------------------------------------------
(* The job of the asynchronous processor, the call of the pipeline that a   *)
(* worker makes later: the pipeline's arguments, the channel for the result *)
(* and the caller's context.                                                *)

\* a TransferJob; n tells the jobs (their Done channels) apart
TransferJob(n, from, to, amount, reference, doneCh, ctx) ==
    [n |-> n, From |-> from, To |-> to, Amount |-> amount, Reference |-> reference,
     Done |-> doneCh, Ctx |-> ctx]

NoJob == TransferJob(0, Nil, Nil, 0, "", "nil", "nil")

-----------------------------------------------------------------------------
(* The transfer pipeline: decorators around the core transfer.  A pipeline  *)
(* is the sequence of its decorators, outermost first; the result of one    *)
(* invocation carries the audit entries handed to the sink, in order, and   *)
(* whether the invocation panicked.                                         *)

ErrNilAccount ==
    WrapBefore("ErrNilAccount", ErrInvalidAccount, "from and to accounts must not be nil")

AuditEntry(from, to, amount, reference, err) ==
    [FromID |-> ID(from), ToID |-> ID(to), Amount |-> amount, Reference |-> reference,
     Success |-> (err = NoError), Error |-> err]

Rejected(txs, err) ==
    [newFrom |-> Nil, newTo |-> Nil, err |-> err, transactions |-> txs,
     entries |-> << >>, panic |-> FALSE, invoked |-> << >>]

\* CoreTransfer(service): the ledger store's Transfer
CoreTransfer(txs, from, to, amount, reference) ==
    LET r == Transfer(txs, from, to, amount, reference)
    IN [newFrom |-> r.newFrom, newTo |-> r.newTo, err |-> r.err,
        transactions |-> r.transactions, entries |-> << >>, panic |-> FALSE,
        invoked |-> <<[from |-> from, to |-> to, amount |-> amount,
                       reference |-> reference]>>]

RECURSIVE RunPipeline(_, _, _, _, _, _)

\* A variant of WithValidation that tests the amount before the accounts
WithValidationAmountFirst(next, txs, from, to, amount, reference) ==
    IF amount < 0 THEN Rejected(txs, ErrNegativeAmount)
    ELSE IF from = Nil \/ to = Nil THEN Rejected(txs, ErrNilAccount)
    ELSE IF ID(from) = ID(to) THEN Rejected(txs, ErrSelfTransferDisallowed)
    ELSE RunPipeline(next, txs, from, to, amount, reference)

\* WithValidation(next)
WithValidation(next, txs, from, to, amount, reference) ==
    IF from = Nil \/ to = Nil THEN Rejected(txs, ErrNilAccount)
    ELSE IF ID(from) = ID(to) THEN Rejected(txs, ErrSelfTransferDisallowed)
    ELSE IF amount < 0 THEN Rejected(txs, ErrNegativeAmount)
    ELSE RunPipeline(next, txs, from, to, amount, reference)

\* WithAudit(auditFn)(next): from.ID() and to.ID() on a nil interface panic
WithAudit(next, txs, from, to, amount, reference) ==
    LET r == RunPipeline(next, txs, from, to, amount, reference) IN
    IF r.panic THEN r
    ELSE IF from = Nil \/ to = Nil THEN [r EXCEPT !.panic = TRUE]
    ELSE [r EXCEPT !.entries = Append(@, AuditEntry(from, to, amount, reference, r.err))]

\* WithLogging(next): it only writes to the log
WithLogging(next, txs, from, to, amount, reference) ==
    RunPipeline(next, txs, from, to, amount, reference)

\* one invocation of the composed TransferFunc
RunPipeline(decorators, txs, from, to, amount, reference) ==
    IF decorators = << >> THEN CoreTransfer(txs, from, to, amount, reference)
    ELSE IF Head(decorators) = "validation"
    THEN WithValidation(Tail(decorators), txs, from, to, amount, reference)
    ELSE IF Head(decorators) = "audit"
    THEN WithAudit(Tail(decorators), txs, from, to, amount, reference)
    ELSE WithLogging(Tail(decorators), txs, from, to, amount, reference)

-----------------------------------------------------------------------------
(* The job processor *)

QueueCap == 100         \* make(chan TransferJob, 100)
MaxWorkers == 2         \* the processors of the model have 1 .. MaxWorkers workers
MaxJobs == 2            \* jobs submitted to a processor with workers
MaxStops == 2           \* callers of Stop
ExtraSubmits == 3       \* Submit calls that the queue did not take

WorkerIDs == 1 .. MaxWorkers
JobIDs == 0 .. MaxJobs
Submitters == 1 .. MaxJobs
Stoppers == 1 .. MaxStops

ErrProcessorStopped == [nil |-> FALSE, is |-> {}, msg |-> "processor stopped"]
ErrQueueFull == [nil |-> FALSE, is |-> {}, msg |-> "job queue full"]
ErrJobTimeout ==
    [nil |-> FALSE, is |-> {"ctx.Err"}, msg |-> "job timed out or cancelled: context canceled"]

IdleWorker == [pc |-> "idle", job |-> NoJob, err |-> NoError]
NoPipe ==
    [pc |-> "none", job |-> NoJob, err |-> NoError, entries |-> << >>]
NewSubmitter ==
    [pc |-> "new", job |-> NoJob, result |-> NoError, late |-> FALSE]
NewStopper == [pc |-> "idle", queued |-> {}]

\* NewProcessor(pipeline, workers)
NewProcessor(decorators, n) ==
    /\ pipeline = decorators
    /\ workers = n
    /\ started = FALSE
    /\ jobs = << >>
    /\ wg = 0
    /\ stopCh = "open"
    /\ closes = 0
    /\ onceDone = FALSE
    /\ ctxDone = FALSE
    /\ wk = [w \in WorkerIDs |-> IdleWorker]
    /\ pipe = [j \in JobIDs |-> NoPipe]
    /\ cancelled = {}
    /\ done = [j \in JobIDs |-> << >>]
    /\ audit = << >>
    /\ sub = [s \in Submitters |-> NewSubmitter]
    /\ stop = [c \in Stoppers |-> NewStopper]
    /\ submits = 0
    /\ crashed = FALSE

StopReturned == \E c \in Stoppers : stop[c].pc = "returned"

\* asyncProcessor.Start: wg.Add(1) and a worker goroutine, workers times
Start ==
    /\ ~crashed
    /\ ~started
    /\ started' = TRUE
    /\ wg' = wg + workers
    /\ wk' = [w \in WorkerIDs |->
                 IF w <= workers THEN [IdleWorker EXCEPT !.pc = "select"] ELSE wk[w]]
    /\ UNCHANGED <<engVars, sideVars, ledgerVars, pipeline, workers, jobs, stopCh, closes, onceDone,
                   ctxDone, pipe, cancelled, done, audit, sub, stop,
                   submits, crashed>>

\* the context passed to Start is cancelled
CancelParent ==
    /\ ~crashed
    /\ started
    /\ ~ctxDone
    /\ ctxDone' = TRUE
    /\ UNCHANGED <<engVars, sideVars, ledgerVars, pipeline, workers, started, jobs, wg, stopCh, closes,
                   onceDone, wk, pipe, cancelled, done, audit, sub, stop,
                   submits, crashed>>

\* the context of a job that has one is cancelled, or its deadline passes
CancelJob(j) ==
    /\ ~crashed
    /\ j \notin cancelled
    /\ \E s \in Submitters : sub[s].job.n = j /\ sub[s].job.Ctx = "ctx"
    /\ cancelled' = cancelled \cup {j}
    /\ UNCHANGED <<engVars, sideVars, ledgerVars, pipeline, workers, started, jobs, wg, stopCh, closes,
                   onceDone, ctxDone, wk, pipe, done, audit, sub, stop,
                   submits, crashed>>

\* a slip of Submit: the stop signal is not looked at
SubmitCheckIgnoresStop(s, job) ==
    /\ ~crashed
    /\ sub[s].pc = "new"
    /\ submits' = submits + 1
    /\ sub' = [sub EXCEPT ![s] = [@ EXCEPT !.pc = "enqueue", !.job = job,
                                           !.late = StopReturned]]
    /\ UNCHANGED <<engVars, sideVars, ledgerVars, pipeline, workers, started, jobs, wg, stopCh, closes,
                   onceDone, ctxDone, wk, pipe, cancelled, done, audit,
                   stop, crashed>>

\* asyncProcessor.Submit, the outer select: the stop signal or default
SubmitCheck(s, job) ==
    /\ ~crashed
    /\ sub[s].pc = "new"
    /\ submits' = submits + 1
    /\ sub' = [sub EXCEPT ![s] =
                  IF stopCh = "closed"
                  THEN [@ EXCEPT !.pc = "done", !.job = job,
                                 !.result = ErrProcessorStopped,
                                 !.late = StopReturned]
                  ELSE [@ EXCEPT !.pc = "enqueue", !.job = job,
                                 !.late = StopReturned]]
    /\ UNCHANGED <<engVars, sideVars, ledgerVars, pipeline, workers, started, jobs, wg, stopCh, closes,
                   onceDone, ctxDone, wk, pipe, cancelled, done, audit,
                   stop, crashed>>

\* a slip of Submit: the send is tried without the default branch's bound
SubmitEnqueueUnbounded(s) ==
    /\ ~crashed
    /\ sub[s].pc = "enqueue"
    /\ jobs' = Append(jobs, sub[s].job)
    /\ sub' = [sub EXCEPT ![s] = [@ EXCEPT !.pc = "done", !.result = NoError]]
    /\ UNCHANGED <<engVars, sideVars, ledgerVars, pipeline, workers, started, wg, stopCh, closes,
                   onceDone, ctxDone, wk, pipe, cancelled, done, audit,
                   stop, submits, crashed>>

\* A variant of SubmitEnqueue that sends the job that fills the queue and
\* reports "job queue full" for it
SubmitEnqueueFullOneEarly(s) ==
    /\ ~crashed
    /\ sub[s].pc = "enqueue"
    /\ IF Len(jobs) < QueueCap
       THEN /\ jobs' = Append(jobs, sub[s].job)
            /\ sub' = [sub EXCEPT ![s] =
                           [@ EXCEPT !.pc = "done",
                                     !.result = IF Len(jobs) = QueueCap - 1 THEN ErrQueueFull
                                                ELSE NoError]]
       ELSE /\ jobs' = jobs
            /\ sub' = [sub EXCEPT ![s] = [@ EXCEPT !.pc = "done",
                                                   !.result = ErrQueueFull]]
    /\ UNCHANGED <<engVars, sideVars, ledgerVars, pipeline, workers, started, wg, stopCh, closes,
                   onceDone, ctxDone, wk, pipe, cancelled, done, audit,
                   stop, submits, crashed>>

\* asyncProcessor.Submit, the inner select: the send on jobs or default
SubmitEnqueue(s) ==
    /\ ~crashed
    /\ sub[s].pc = "enqueue"
    /\ IF Len(jobs) < QueueCap
       THEN /\ jobs' = Append(jobs, sub[s].job)
            /\ sub' = [sub EXCEPT ![s] = [@ EXCEPT !.pc = "done",
                                                   !.result = NoError]]
       ELSE /\ jobs' = jobs
            /\ sub' = [sub EXCEPT ![s] = [@ EXCEPT !.pc = "done",
                                                   !.result = ErrQueueFull]]
    /\ UNCHANGED <<engVars, sideVars, ledgerVars, pipeline, workers, started, wg, stopCh, closes,
                   onceDone, ctxDone, wk, pipe, cancelled, done, audit,
                   stop, submits, crashed>>

\* the caller of Submit calls it again, a job the queue did not take
\* ExtraSubmits times at most
SubmitAgain(s) ==
    /\ ~crashed
    /\ sub[s].pc = "done"
    /\ sub[s].result = NoError \/ submits - Len(jobs) < ExtraSubmits
    /\ sub' = [sub EXCEPT ![s] = NewSubmitter]
    /\ UNCHANGED <<engVars, sideVars, ledgerVars, pipeline, workers, started, jobs, wg, stopCh, closes,
                   onceDone, ctxDone, wk, pipe, cancelled, done, audit,
                   stop, submits, crashed>>

\* a worker's select: the parent context is done, or the stop signal is closed
WorkerExit(w) ==
    /\ ~crashed
    /\ wk[w].pc = "select"
    /\ ctxDone \/ stopCh = "closed"
    /\ wk' = [wk EXCEPT ![w] = [@ EXCEPT !.pc = "exited"]]
    /\ wg' = wg - 1
    /\ UNCHANGED <<engVars, sideVars, ledgerVars, pipeline, workers, started, jobs, stopCh, closes,
                   onceDone, ctxDone, pipe, cancelled, done, audit, sub,
                   stop, submits, crashed>>

\* a slip of the queue: a received job stays in the channel
WorkerTakeKeepsJob(w) ==
    /\ ~crashed
    /\ wk[w].pc = "select"
    /\ jobs # << >>
    /\ jobs' = jobs
    /\ wk' = [wk EXCEPT ![w] = [@ EXCEPT !.pc = "process", !.job = Head(jobs)]]
    /\ pipe' = [pipe EXCEPT ![Head(jobs).n] =
                   [NoPipe EXCEPT !.pc = "running", !.job = Head(jobs)]]
    /\ UNCHANGED <<engVars, sideVars, ledgerVars, pipeline, workers, started, wg, stopCh, closes,
                   onceDone, ctxDone, cancelled, done, audit, sub, stop,
                   submits, crashed>>

\* a worker's select: a job is received; process() starts the goroutine that
\* runs the pipeline
WorkerTake(w) ==
    /\ ~crashed
    /\ wk[w].pc = "select"
    /\ jobs # << >>
    /\ jobs' = Tail(jobs)
    /\ wk' = [wk EXCEPT ![w] = [@ EXCEPT !.pc = "process", !.job = Head(jobs)]]
    /\ pipe' = [pipe EXCEPT ![Head(jobs).n] =
                   [NoPipe EXCEPT !.pc = "running", !.job = Head(jobs)]]
    /\ UNCHANGED <<engVars, sideVars, ledgerVars, pipeline, workers, started, wg, stopCh, closes,
                   onceDone, ctxDone, cancelled, done, audit, sub, stop,
                   submits, crashed>>

\* the goroutine of process(): p.pipeline(job.From, job.To, job.Amount,
\* job.Reference) up to the audit sink
PipelineInvoke(j) ==
    /\ ~crashed
    /\ pipe[j].pc = "running"
    /\ LET job == pipe[j].job
           r == RunPipeline(pipeline, transactions, job.From, job.To, job.Amount,
                            job.Reference)
       IN /\ transactions' = r.transactions
          /\ history' =
                 IF r.transactions # transactions
                 THEN Append(history, [from |-> ID(job.From), to |-> ID(job.To),
                                       amount |-> job.Amount,
                                       reference |-> job.Reference])
                 ELSE history
          /\ crashed' = r.panic
          /\ pipe' = [pipe EXCEPT ![j] =
                         [@ EXCEPT !.pc = IF r.panic THEN "panicked"
                                          ELSE IF r.entries # << >> THEN "sink"
                                          ELSE "close",
                                   !.err = r.err, !.entries = r.entries]]
    /\ UNCHANGED <<engVars, sideVars, call, pipeline, workers, started, jobs, wg, stopCh, closes,
                   onceDone, ctxDone, wk, cancelled, done, audit, sub,
                   stop, submits>>

\* WithAudit: auditFn(entry), a sink that appends the entry under its mutex
SinkAppend(j) ==
    /\ ~crashed
    /\ pipe[j].pc = "sink"
    /\ audit' = Append(audit, Head(pipe[j].entries))
    /\ pipe' = [pipe EXCEPT ![j] =
                   [@ EXCEPT !.entries = Tail(@),
                             !.pc = IF Tail(pipe[j].entries) = << >>
                                    THEN "close" ELSE "sink"]]
    /\ UNCHANGED <<engVars, sideVars, ledgerVars, pipeline, workers, started, jobs, wg, stopCh, closes,
                   onceDone, ctxDone, wk, cancelled, done, sub, stop,
                   submits, crashed>>

\* the goroutine of process(): the pipeline has returned, close(done)
PipelineClose(j) ==
    /\ ~crashed
    /\ pipe[j].pc = "close"
    /\ pipe' = [pipe EXCEPT ![j] = [@ EXCEPT !.pc = "done"]]
    /\ UNCHANGED <<engVars, sideVars, ledgerVars, pipeline, workers, started, jobs, wg, stopCh, closes,
                   onceDone, ctxDone, wk, cancelled, done, audit, sub,
                   stop, submits, crashed>>

\* process(), its select: the pipeline is done
ProcessDone(w) ==
    /\ ~crashed
    /\ wk[w].pc = "process"
    /\ pipe[wk[w].job.n].pc = "done"
    /\ wk' = [wk EXCEPT ![w] = [@ EXCEPT !.pc = "send", !.err = pipe[wk[w].job.n].err]]
    /\ UNCHANGED <<engVars, sideVars, ledgerVars, pipeline, workers, started, jobs, wg, stopCh, closes,
                   onceDone, ctxDone, pipe, cancelled, done, audit, sub,
                   stop, submits, crashed>>

\* process(), its select: the job's context is done
ProcessTimeout(w) ==
    /\ ~crashed
    /\ wk[w].pc = "process"
    /\ wk[w].job.Ctx = "ctx"
    /\ wk[w].job.n \in cancelled
    /\ wk' = [wk EXCEPT ![w] = [@ EXCEPT !.pc = "send", !.err = ErrJobTimeout]]
    /\ UNCHANGED <<engVars, sideVars, ledgerVars, pipeline, workers, started, jobs, wg, stopCh, closes,
                   onceDone, ctxDone, pipe, cancelled, done, audit, sub,
                   stop, submits, crashed>>

\* the worker after process(): if job.Done != nil { job.Done <- err }; the send
\* waits for room in the channel ("chan" is a channel of one slot, "unread" a
\* channel without a buffer that nobody receives from)
WorkerSend(w) ==
    /\ ~crashed
    /\ wk[w].pc = "send"
    /\ IF wk[w].job.Done = "nil"
       THEN done' = done
       ELSE /\ wk[w].job.Done # "unread"
            /\ Len(done[wk[w].job.n]) < 1
            /\ done' = [done EXCEPT ![wk[w].job.n] = Append(@, wk[w].err)]
    /\ wk' = [wk EXCEPT ![w] = [IdleWorker EXCEPT !.pc = "select"]]
    /\ UNCHANGED <<engVars, sideVars, ledgerVars, pipeline, workers, started, jobs, wg, stopCh, closes,
                   onceDone, ctxDone, pipe, cancelled, audit, sub, stop,
                   submits, crashed>>

\* the jobs in the queue
Queued == {jobs[i].n : i \in 1 .. Len(jobs)}

\* Stop is called: stopOnce.Do looks at its done flag
StopCall(c) ==
    /\ ~crashed
    /\ started
    /\ stop[c].pc = "idle"
    /\ stop' = [stop EXCEPT ![c] = [pc |-> IF onceDone THEN "returned" ELSE "lock",
                                    queued |-> Queued]]
    /\ UNCHANGED <<engVars, sideVars, ledgerVars, pipeline, workers, started, jobs, wg, stopCh, closes,
                   onceDone, ctxDone, wk, pipe, cancelled, done, audit,
                   sub, submits, crashed>>

\* a slip of Stop: the function runs without the Once
StopLockNoOnce(c) ==
    /\ ~crashed
    /\ stop[c].pc = "lock"
    /\ stop' = [stop EXCEPT ![c] = [@ EXCEPT !.pc = "close"]]
    /\ UNCHANGED <<engVars, sideVars, ledgerVars, pipeline, workers, started, jobs, wg, stopCh, closes,
                   onceDone, ctxDone, wk, pipe, cancelled, done, audit,
                   sub, submits, crashed>>

\* stopOnce.Do: the Once's mutex is taken when no other caller holds it; a
\* caller that finds the function done returns
StopLock(c) ==
    /\ ~crashed
    /\ stop[c].pc = "lock"
    /\ \A o \in Stoppers : stop[o].pc \notin {"close", "wait"}
    /\ stop' = [stop EXCEPT ![c] = [@ EXCEPT !.pc = IF onceDone THEN "returned"
                                                     ELSE "close"]]
    /\ UNCHANGED <<engVars, sideVars, ledgerVars, pipeline, workers, started, jobs, wg, stopCh, closes,
                   onceDone, ctxDone, wk, pipe, cancelled, done, audit,
                   sub, submits, crashed>>

\* the function of stopOnce.Do: close(p.stopCh); closing a closed channel panics
StopClose(c) ==
    /\ ~crashed
    /\ stop[c].pc = "close"
    /\ closes' = closes + 1
    /\ stopCh' = "closed"
    /\ crashed' = (stopCh = "closed")
    /\ stop' = [stop EXCEPT ![c] = [@ EXCEPT !.pc = "wait"]]
    /\ UNCHANGED <<engVars, sideVars, ledgerVars, pipeline, workers, started, jobs, wg, onceDone,
                   ctxDone, wk, pipe, cancelled, done, audit, sub,
                   submits>>

\* the function of stopOnce.Do: p.wg.Wait(), then the Once is done and Stop
\* returns
StopWait(c) ==
    /\ ~crashed
    /\ stop[c].pc = "wait"
    /\ wg = 0
    /\ onceDone' = TRUE
    /\ stop' = [stop EXCEPT ![c] = [@ EXCEPT !.pc = "returned"]]
    /\ UNCHANGED <<engVars, sideVars, ledgerVars, pipeline, workers, started, jobs, wg, stopCh, closes,
                   ctxDone, wk, pipe, cancelled, done, audit, sub,
                   submits, crashed>>

-----------------------------------------------------------------------------
(* The account registry and the transfer engine *)

Retries == 3            \* SubmitWithRetry(job, 3, 100*time.Millisecond)

EngineIDs == TransferIDs
Callbacks == {"cb1", "cb2"}
NoCallback == "nil"

ErrUnknownAccount == NewError("ErrUnknownAccount", "unknown account")

\* fmt.Errorf(text + ": %w", err)
WrapPrefix(text, err) == [nil |-> FALSE, is |-> err.is, msg |-> text \o ": " \o err.msg]

ErrTransferToSelf == [nil |-> FALSE, is |-> {}, msg |-> "cannot transfer to self"]
ErrInvalidAmount(amount) ==
    [nil |-> FALSE, is |-> {}, msg |-> "invalid amount: " \o ToString(amount)]

\* errString(err)
errString(err) == IF err = NoError THEN "" ELSE err.msg

NewAccountRegistry == << >>

\* accountRegistry.Register: r.accounts[string(acc.ID())] = acc
Register(accounts, acc) == (ID(acc) :> acc) @@ accounts

\* accountRegistry.Get
Get(accounts, id) ==
    IF id \in DOMAIN accounts
    THEN [acc |-> accounts[id], err |-> NoError]
    ELSE [acc |-> Nil, err |-> ErrUnknownAccount]

\* A variant of the observer's AuditEntry whose Success says that a result
\* was received
EngineAuditEntryAnyResult(fromID, toID, amount, reference, result) ==
    [From |-> fromID, To |-> toID, Amount |-> amount, Reference |-> reference,
     Success |-> TRUE, Error |-> errString(result)]

\* the AuditEntry the observer appends (its Timestamp left out)
EngineAuditEntry(fromID, toID, amount, reference, result) ==
    [From |-> fromID, To |-> toID, Amount |-> amount, Reference |-> reference,
     Success |-> (result = NoError), Error |-> errString(result)]

NewCaller ==
    [pc |-> "idle", fromID |-> "", toID |-> "", amount |-> 0, reference |-> "",
     from |-> Nil, job |-> NoJob, attempts |-> 0, err |-> NoError]
NoObserver == [pc |-> "none", job |-> NoJob, result |-> NoError]

\* NewAccountRegistry and NewEngine(reg, proc, svc); auditLog is a package
\* variable
NewEngine ==
    /\ registry = NewAccountRegistry
    /\ onDone = NoCallback
    /\ auditLog = << >>
    /\ eng = [s \in Submitters |-> NewCaller]
    /\ obs = [s \in Submitters |-> NoObserver]
    /\ calls = << >>

\* transferEngine.RegisterAccount
RegisterAccount(acc) ==
    /\ ~crashed
    /\ registry' = Register(registry, acc)
    /\ UNCHANGED <<sideVars, ledgerVars, procVars, onDone, auditLog, eng, obs, calls>>

\* transferEngine.OnComplete: e.onDone = cb
OnComplete(cb) ==
    /\ ~crashed
    /\ onDone' = cb
    /\ UNCHANGED <<sideVars, ledgerVars, procVars, registry, auditLog, eng, obs, calls>>

\* SubmitTransfer, its first lookup: e.registry.Get(fromID)
SubmitTransferGetFrom(s, fromID, toID, amount, reference) ==
    /\ ~crashed
    /\ eng[s].pc = "idle"
    /\ LET r == Get(registry, fromID) IN
       eng' = [eng EXCEPT ![s] =
                  [@ EXCEPT !.fromID = fromID, !.toID = toID, !.amount = amount,
                            !.reference = reference, !.from = r.acc,
                            !.pc = IF r.err = NoError THEN "getTo" ELSE "returned",
                            !.err = IF r.err = NoError THEN NoError
                                    ELSE WrapPrefix("from", r.err)]]
    /\ UNCHANGED <<sideVars, ledgerVars, procVars, registry, onDone, auditLog, obs, calls>>

\* A variant of SubmitTransferGetTo that tests amount < 0 where the code tests
\* amount <= 0
SubmitTransferGetToAllowsZero(s) ==
    /\ ~crashed
    /\ eng[s].pc = "getTo"
    /\ LET r == Get(registry, eng[s].toID)
           err == IF r.err # NoError THEN WrapPrefix("to", r.err)
                  ELSE IF ID(eng[s].from) = ID(r.acc) THEN ErrTransferToSelf
                  ELSE IF eng[s].amount < 0 THEN ErrInvalidAmount(eng[s].amount)
                  ELSE NoError
       IN eng' = [eng EXCEPT ![s] =
                     IF err # NoError
                     THEN [@ EXCEPT !.pc = "returned", !.err = err]
                     ELSE [@ EXCEPT !.pc = "submit",
                                    !.job = TransferJob(s, eng[s].from, r.acc,
                                                        eng[s].amount, "", "chan", "ctx")]]
    /\ UNCHANGED <<sideVars, ledgerVars, procVars, registry, onDone, auditLog, obs, calls>>

\* SubmitTransfer, from the second lookup to the job: e.registry.Get(toID),
\* the test of the ids and of the amount, the Done channel and the job,
\* which gets no Reference
SubmitTransferGetTo(s) ==
    /\ ~crashed
    /\ eng[s].pc = "getTo"
    /\ LET r == Get(registry, eng[s].toID)
           err == IF r.err # NoError THEN WrapPrefix("to", r.err)
                  ELSE IF ID(eng[s].from) = ID(r.acc) THEN ErrTransferToSelf
                  ELSE IF eng[s].amount <= 0 THEN ErrInvalidAmount(eng[s].amount)
                  ELSE NoError
       IN eng' = [eng EXCEPT ![s] =
                     IF err # NoError
                     THEN [@ EXCEPT !.pc = "returned", !.err = err]
                     ELSE [@ EXCEPT !.pc = "submit",
                                    !.job = TransferJob(s, eng[s].from, r.acc,
                                                        eng[s].amount, "", "chan", "ctx")]]
    /\ UNCHANGED <<sideVars, ledgerVars, procVars, registry, onDone, auditLog, obs, calls>>

\* SubmitWithRetry: an attempt failed with "job queue full" and retries are
\* left; after the delay Submit is called again
SubmitWithRetryAgain(s) ==
    /\ ~crashed
    /\ eng[s].pc = "submit"
    /\ sub[s].pc = "done"
    /\ sub[s].result = ErrQueueFull
    /\ eng[s].attempts < Retries
    /\ eng' = [eng EXCEPT ![s] = [@ EXCEPT !.attempts = @ + 1]]
    /\ sub' = [sub EXCEPT ![s] = NewSubmitter]
    /\ UNCHANGED <<sideVars, ledgerVars, pipeline, workers, started, jobs, wg, stopCh, closes,
                   onceDone, ctxDone, wk, pipe, cancelled, done, audit, stop,
                   submits, crashed, registry, onDone, auditLog, obs, calls>>

\* SubmitWithRetry returns what its last attempt returned: nil, "processor
\* stopped", or "job queue full" when no retry is left
SubmitWithRetryReturn(s) ==
    /\ ~crashed
    /\ eng[s].pc = "submit"
    /\ sub[s].pc = "done"
    /\ sub[s].result = ErrQueueFull => eng[s].attempts >= Retries
    /\ eng' = [eng EXCEPT ![s] = [@ EXCEPT !.pc = "submitted", !.err = sub[s].result]]
    /\ UNCHANGED <<sideVars, ledgerVars, procVars, registry, onDone, auditLog, obs, calls>>

\* SubmitTransfer after SubmitWithRetry: the error is returned, or the
\* observer goroutine is started and nil is returned
SubmitTransferReturn(s) ==
    /\ ~crashed
    /\ eng[s].pc = "submitted"
    /\ IF eng[s].err # NoError
       THEN /\ eng' = [eng EXCEPT ![s] =
                          [@ EXCEPT !.pc = "returned", !.err = WrapPrefix("submit", @)]]
            /\ obs' = obs
       ELSE /\ eng' = [eng EXCEPT ![s] = [@ EXCEPT !.pc = "returned"]]
            /\ obs' = [obs EXCEPT ![s] = [NoObserver EXCEPT !.pc = "waiting",
                                                           !.job = eng[s].job]]
    /\ UNCHANGED <<sideVars, ledgerVars, procVars, registry, onDone, auditLog, calls>>

\* the observer: result := <-done
ObserverReceive(s) ==
    /\ ~crashed
    /\ obs[s].pc = "waiting"
    /\ done[s] # << >>
    /\ obs' = [obs EXCEPT ![s] = [@ EXCEPT !.pc = "check", !.result = Head(done[s])]]
    /\ done' = [done EXCEPT ![s] = Tail(@)]
    /\ UNCHANGED <<sideVars, ledgerVars, pipeline, workers, started, jobs, wg, stopCh, closes,
                   onceDone, ctxDone, wk, pipe, cancelled, audit, sub, stop,
                   submits, crashed, registry, onDone, auditLog, eng, calls>>

\* the observer: if e.onDone != nil, a read of the field without a lock
ObserverCheck(s) ==
    /\ ~crashed
    /\ obs[s].pc = "check"
    /\ obs' = [obs EXCEPT ![s] =
                  [@ EXCEPT !.pc = IF onDone # NoCallback THEN "call" ELSE "audit"]]
    /\ UNCHANGED <<sideVars, ledgerVars, procVars, registry, onDone, auditLog, eng, calls>>

\* the observer: e.onDone(job, result), a second read of the field; calling
\* a nil func panics
ObserverCall(s) ==
    /\ ~crashed
    /\ obs[s].pc = "call"
    /\ IF onDone = NoCallback
       THEN /\ crashed' = TRUE
            /\ calls' = calls
            /\ obs' = [obs EXCEPT ![s] = [@ EXCEPT !.pc = "panicked"]]
       ELSE /\ crashed' = crashed
            /\ calls' = Append(calls, [cb |-> onDone, job |-> obs[s].job,
                                       err |-> obs[s].result])
            /\ obs' = [obs EXCEPT ![s] = [@ EXCEPT !.pc = "audit"]]
    /\ UNCHANGED <<sideVars, ledgerVars, pipeline, workers, started, jobs, wg, stopCh, closes,
                   onceDone, ctxDone, wk, pipe, cancelled, done, audit, sub, stop,
                   submits, registry, onDone, auditLog, eng>>

\* the observer: the entry is appended to auditLog under auditMu
ObserverAudit(s) ==
    /\ ~crashed
    /\ obs[s].pc = "audit"
    /\ auditLog' = Append(auditLog,
                          EngineAuditEntry(eng[s].fromID, eng[s].toID, eng[s].amount,
                                           eng[s].reference, obs[s].result))
    /\ obs' = [obs EXCEPT ![s] = [@ EXCEPT !.pc = "done"]]
    /\ UNCHANGED <<sideVars, ledgerVars, procVars, registry, onDone, eng, calls>>

-----------------------------------------------------------------------------
(* The callers of the concurrent service, of the registry and of a decorator *)

MaxCallers == 3         \* goroutines that call the service, or the registry
MaxInvocations == 2     \* invocations of a decorated TransferFunc in one run

SvcCallers == 1..MaxCallers
RegCallers == 1..MaxCallers

\* a goroutine that has not called ConcurrentBankService yet
NoSvcCall ==
    [pc |-> "idle", op |-> "none", from |-> Nil, to |-> Nil, amount |-> 0,
     entry |-> << >>, err |-> NoError]

\* a goroutine that has not called the registry yet
NoRegCall == [pc |-> "idle", op |-> "none", id |-> "", acc |-> Nil, got |-> Nil,
              err |-> NoError, torn |-> FALSE, seq |-> 0]

\* no decorated TransferFunc has been invoked
NoDecCall ==
    [pc |-> "idle", n |-> 0, decorators |-> << >>, from |-> Nil, to |-> Nil,
     amount |-> 0, reference |-> "", before |-> << >>, err |-> NoError,
     newFrom |-> Nil, newTo |-> Nil, entries |-> << >>, invoked |-> << >>]

\* NewConcurrentBankService, NewAccountRegistry: both mutexes free, nobody
\* inside
NewConcurrentBankService ==
    /\ mu = 0
    /\ svc = [c \in SvcCallers |-> NoSvcCall]
    /\ rwmu = [w |-> 0, r |-> {}]
    /\ reg = [c \in RegCallers |-> NoRegCall]
    /\ dec = NoDecCall

MaxReaders == 2         \* goroutines that call AuditLog
MaxHeld == 4             \* account values one client holds
MaxRequests == 2        \* requests POST /accounts handled at the same time

Readers == 1..MaxReaders
Requests == 1..MaxRequests

\* a goroutine that has not called AuditLog yet
NoReader == [pc |-> "idle", out |-> << >>, alias |-> FALSE, torn |-> FALSE,
             changed |-> FALSE]

\* a request that has not reached the handler yet
NoRequest == [pc |-> "idle", id |-> "", balance |-> 0, code |-> 0]

\* no method of an account has been called
NoAcctCall ==
    [pc |-> "idle", n |-> 0, op |-> "none", recv |-> Nil, amount |-> 0,
     acc |-> Nil, err |-> NoError, after |-> Nil, held |-> << >>]

\* NewHandler over a new engine: auditMu free, no reader, no request
NewHandler ==
    /\ auditMu = << >>
    /\ rd = [c \in Readers |-> NoReader]
    /\ http = [h \in Requests |-> NoRequest]
    /\ acct = NoAcctCall

\* The calls through ConcurrentBankService: "Transfer" and "GetStatement"
\* take the same path, c.mu.Lock(), the deferred c.mu.Unlock(), the inner call

\* A variant of SvcLock whose Lock does not wait for the mutex to be free
SvcLockNoExclusion(c, op, from, to, amount) ==
    /\ svc[c].pc = "idle"
    /\ mu' = c
    /\ svc' = [svc EXCEPT ![c] = [NoSvcCall EXCEPT !.pc = "locked", !.op = op, !.from = from,
                                                    !.to = to, !.amount = amount]]
    /\ UNCHANGED <<apiVars, ledgerVars, procVars, engVars, rwmu, reg, dec>>

\* c.mu.Lock() of Transfer or GetStatement returns: the mutex was free
SvcLock(c, op, from, to, amount) ==
    /\ svc[c].pc = "idle"
    /\ mu = 0
    /\ mu' = c
    /\ svc' = [svc EXCEPT ![c] = [NoSvcCall EXCEPT !.pc = "locked", !.op = op, !.from = from,
                                                    !.to = to, !.amount = amount]]
    /\ UNCHANGED <<apiVars, ledgerVars, procVars, engVars, rwmu, reg, dec>>

\* c.inner.Transfer / c.inner.GetStatement is entered: it sees the store
SvcEnter(c) ==
    /\ svc[c].pc = "locked"
    /\ svc' = [svc EXCEPT ![c] = [@ EXCEPT !.pc = "inside", !.entry = transactions]]
    /\ UNCHANGED <<apiVars, ledgerVars, procVars, engVars, mu, rwmu, reg, dec>>

\* the inner call works on the store as it is now and returns
SvcInner(c) ==
    /\ svc[c].pc = "inside"
    /\ IF svc[c].op = "Transfer"
       THEN LET r == Transfer(transactions, svc[c].from, svc[c].to, svc[c].amount,
                              "SVC-" \o ToString(c)) IN
            /\ transactions' = r.transactions
            /\ svc' = [svc EXCEPT ![c] = [@ EXCEPT !.pc = "unlock", !.err = r.err]]
       ELSE LET r == GetStatement(transactions, svc[c].from) IN
            /\ transactions' = transactions
            /\ svc' = [svc EXCEPT ![c] = [@ EXCEPT !.pc = "unlock", !.err = r.err]]
    /\ UNCHANGED <<apiVars, history, call, procVars, engVars, mu, rwmu, reg, dec>>

\* the deferred c.mu.Unlock() runs and the call returns
SvcUnlock(c) ==
    /\ svc[c].pc = "unlock"
    /\ mu' = 0
    /\ svc' = [svc EXCEPT ![c] = [@ EXCEPT !.pc = "returned"]]
    /\ UNCHANGED <<apiVars, ledgerVars, procVars, engVars, rwmu, reg, dec>>

\* The calls of the registry: Register takes r.mu.Lock(), Get r.mu.RLock()

\* the goroutines whose Register holds the write lock
Writers == {c \in RegCallers : reg[c].pc \in {"locked", "writing", "unlock"}}

\* how many Register calls have stored their entry
Stores == Cardinality({c \in RegCallers : reg[c].seq > 0})

\* A variant of GetRLock that does not wait for the writer
GetRLockIgnoresWriter(c, id) ==
    /\ reg[c].pc = "idle"
    /\ rwmu' = [rwmu EXCEPT !.r = @ \cup {c}]
    /\ reg' = [reg EXCEPT ![c] = [NoRegCall EXCEPT !.pc = "rlocked", !.op = "Get", !.id = id]]
    /\ UNCHANGED <<apiVars, ledgerVars, procVars, engVars, mu, svc, dec>>

\* Register: r.mu.Lock() returns, no writer and no reader holds the mutex
RegisterLock(c, acc) ==
    /\ reg[c].pc = "idle"
    /\ rwmu.w = 0 /\ rwmu.r = {}
    /\ rwmu' = [rwmu EXCEPT !.w = c]
    /\ reg' = [reg EXCEPT ![c] = [NoRegCall EXCEPT !.pc = "locked", !.op = "Register",
                                                    !.id = ID(acc), !.acc = acc]]
    /\ UNCHANGED <<apiVars, ledgerVars, procVars, engVars, mu, svc, dec>>

\* Register: the assignment to the map begins; the map is being changed
RegisterStoreBegin(c) ==
    /\ reg[c].pc = "locked"
    /\ reg' = [reg EXCEPT ![c] = [@ EXCEPT !.pc = "writing"]]
    /\ UNCHANGED <<apiVars, ledgerVars, procVars, engVars, mu, svc, rwmu, dec>>

\* Register: r.accounts[string(acc.ID())] = acc is done
RegisterStoreEnd(c) ==
    /\ reg[c].pc = "writing"
    /\ registry' = Register(registry, reg[c].acc)
    /\ reg' = [reg EXCEPT ![c] = [@ EXCEPT !.pc = "unlock", !.seq = Stores + 1]]
    /\ UNCHANGED <<apiVars, ledgerVars, procVars, onDone, auditLog, eng, obs, calls, mu, svc, rwmu, dec>>

\* Register: the deferred r.mu.Unlock()
RegisterUnlock(c) ==
    /\ reg[c].pc = "unlock"
    /\ rwmu' = [rwmu EXCEPT !.w = 0]
    /\ reg' = [reg EXCEPT ![c] = [@ EXCEPT !.pc = "returned"]]
    /\ UNCHANGED <<apiVars, ledgerVars, procVars, engVars, mu, svc, dec>>

\* Get: r.mu.RLock() returns, no writer holds the mutex
GetRLock(c, id) ==
    /\ reg[c].pc = "idle"
    /\ rwmu.w = 0
    /\ rwmu' = [rwmu EXCEPT !.r = @ \cup {c}]
    /\ reg' = [reg EXCEPT ![c] = [NoRegCall EXCEPT !.pc = "rlocked", !.op = "Get", !.id = id]]
    /\ UNCHANGED <<apiVars, ledgerVars, procVars, engVars, mu, svc, dec>>

\* Get: acc, ok := r.accounts[id]; a map read while the map is being changed
\* is a data race, recorded in torn
GetLoad(c) ==
    /\ reg[c].pc = "rlocked"
    /\ LET r == Get(registry, reg[c].id) IN
       reg' = [reg EXCEPT ![c] = [@ EXCEPT !.pc = "runlock", !.got = r.acc, !.err = r.err,
                                          !.torn = \E w \in RegCallers : reg[w].pc = "writing"]]
    /\ UNCHANGED <<apiVars, ledgerVars, procVars, engVars, mu, svc, rwmu, dec>>

\* Get: the deferred r.mu.RUnlock()
GetRUnlock(c) ==
    /\ reg[c].pc = "runlock"
    /\ rwmu' = [rwmu EXCEPT !.r = @ \ {c}]
    /\ reg' = [reg EXCEPT ![c] = [@ EXCEPT !.pc = "returned"]]
    /\ UNCHANGED <<apiVars, ledgerVars, procVars, engVars, mu, svc, dec>>

\* A decorated TransferFunc is invoked: the whole call, down to the ledger
\* store and back; a panic in it ends the process
DecInvoke(decorators, from, to, amount, reference) ==
    /\ ~crashed
    /\ dec.pc = "idle"
    /\ dec.n < MaxInvocations
    /\ LET r == RunPipeline(decorators, transactions, from, to, amount, reference) IN
       /\ transactions' = r.transactions
       /\ crashed' = r.panic
       /\ dec' = [pc |-> IF r.panic THEN "panicked" ELSE "returned", n |-> dec.n + 1,
                  decorators |-> decorators, from |-> from, to |-> to,
                  amount |-> amount, reference |-> reference, before |-> transactions,
                  err |-> r.err, newFrom |-> r.newFrom, newTo |-> r.newTo,
                  entries |-> r.entries, invoked |-> r.invoked]
    /\ UNCHANGED <<apiVars, engVars, mu, svc, rwmu, reg, history, call, pipeline, workers, started,
                   jobs, wg, stopCh, closes, onceDone, ctxDone, wk, pipe, cancelled,
                   done, audit, sub, stop, submits>>

\* the caller has the results and may invoke again
DecReturn ==
    /\ dec.pc = "returned"
    /\ dec' = [dec EXCEPT !.pc = "idle"]
    /\ UNCHANGED <<apiVars, ledgerVars, procVars, engVars, mu, svc, rwmu, reg>>

\* The audit log under auditMu. The observer's append, ObserverAudit, in its
\* four steps, and AuditLog in its three

\* the observer: auditMu.Lock() returns, the mutex was free
AuditLock(s) ==
    /\ ~crashed
    /\ obs[s].pc = "audit"
    /\ auditMu = << >>
    /\ auditMu' = <<"observer", s>>
    /\ obs' = [obs EXCEPT ![s] = [@ EXCEPT !.pc = "appending"]]
    /\ UNCHANGED <<ledgerVars, procVars, registry, onDone, auditLog, eng, calls,
                   mu, svc, rwmu, reg, dec, rd, http, acct>>

\* the observer: the append to auditLog begins; the slice is being changed
AuditAppendBegin(s) ==
    /\ ~crashed
    /\ obs[s].pc = "appending"
    /\ obs' = [obs EXCEPT ![s] = [@ EXCEPT !.pc = "writing"]]
    /\ UNCHANGED <<ledgerVars, procVars, registry, onDone, auditLog, eng, calls, sideVars>>

\* the observer: auditLog = append(auditLog, AuditEntry{...}) is done
AuditAppendEnd(s) ==
    /\ ~crashed
    /\ obs[s].pc = "writing"
    /\ auditLog' = Append(auditLog,
                          EngineAuditEntry(eng[s].fromID, eng[s].toID, eng[s].amount,
                                           eng[s].reference, obs[s].result))
    /\ obs' = [obs EXCEPT ![s] = [@ EXCEPT !.pc = "unlock"]]
    /\ UNCHANGED <<ledgerVars, procVars, registry, onDone, eng, calls, sideVars>>

\* the observer: auditMu.Unlock()
AuditUnlock(s) ==
    /\ ~crashed
    /\ obs[s].pc = "unlock"
    /\ auditMu' = << >>
    /\ obs' = [obs EXCEPT ![s] = [@ EXCEPT !.pc = "done"]]
    /\ UNCHANGED <<ledgerVars, procVars, registry, onDone, auditLog, eng, calls,
                   mu, svc, rwmu, reg, dec, rd, http, acct>>

\* AuditLog: auditMu.Lock() returns, the mutex was free
AuditLogLock(c) ==
    /\ ~crashed
    /\ rd[c].pc = "idle"
    /\ auditMu = << >>
    /\ auditMu' = <<"reader", c>>
    /\ rd' = [rd EXCEPT ![c] = [@ EXCEPT !.pc = "locked"]]
    /\ UNCHANGED <<ledgerVars, procVars, engVars, mu, svc, rwmu, reg, dec, http, acct>>

\* A variant of AuditLogCopy that hands out the log's own slice: *out = auditLog
AuditLogCopyAliases(c) ==
    /\ ~crashed
    /\ rd[c].pc = "locked"
    /\ rd' = [rd EXCEPT ![c] =
                 [@ EXCEPT !.pc = "copied", !.out = auditLog, !.alias = TRUE,
                           !.torn = \E s \in Submitters : obs[s].pc = "writing"]]
    /\ UNCHANGED <<ledgerVars, procVars, engVars, mu, svc, rwmu, reg, dec, auditMu, http, acct>>

\* AuditLog: copied := make([]AuditEntry, len(auditLog)); copy(copied,
\* auditLog); *out = copied. Reading the slice while it is being changed is a
\* data race, recorded in torn
AuditLogCopy(c) ==
    /\ ~crashed
    /\ rd[c].pc = "locked"
    /\ rd' = [rd EXCEPT ![c] =
                 [@ EXCEPT !.pc = "copied", !.out = auditLog, !.alias = FALSE,
                           !.torn = \E s \in Submitters : obs[s].pc = "writing"]]
    /\ UNCHANGED <<ledgerVars, procVars, engVars, mu, svc, rwmu, reg, dec, auditMu, http, acct>>

\* AuditLog: the deferred auditMu.Unlock()
AuditLogUnlock(c) ==
    /\ ~crashed
    /\ rd[c].pc = "copied"
    /\ auditMu' = << >>
    /\ rd' = [rd EXCEPT ![c] = [@ EXCEPT !.pc = "returned"]]
    /\ UNCHANGED <<ledgerVars, procVars, engVars, mu, svc, rwmu, reg, dec, http, acct>>

\* the caller of AuditLog writes to the first element of the slice it got;
\* the log changes with it when the two share their array
CallerChanges(c) ==
    /\ ~crashed
    /\ rd[c].pc = "returned"
    /\ rd[c].out # << >>
    /\ ~rd[c].changed
    /\ rd' = [rd EXCEPT ![c] = [@ EXCEPT !.changed = TRUE,
                                         !.out = [@ EXCEPT ![1].Reference = "changed"]]]
    /\ auditLog' = IF rd[c].alias THEN [auditLog EXCEPT ![1].Reference = "changed"]
                   ELSE auditLog
    /\ UNCHANGED <<ledgerVars, procVars, registry, onDone, eng, obs, calls,
                   mu, svc, rwmu, reg, dec, auditMu, http, acct>>

\* transferEngine.GetStatement: the registry's Get, then the bank service's
\* GetStatement
EngineGetStatement(accounts, txs, accountID) ==
    LET r == Get(accounts, accountID) IN
    IF r.err # NoError
    THEN [list |-> << >>, null |-> TRUE, err |-> WrapPrefix("statement", r.err)]
    ELSE GetStatement(txs, r.acc)

\* the bodies a client can post: one that is not JSON, and every id and balance
Bodies ==
    {[json |-> FALSE, id |-> "", balance |-> 0]}
    \cup {[json |-> TRUE, id |-> i, balance |-> b] :
             i \in {""} \cup TransferIDs, b \in 0 .. MaxBalance + 1}

\* Handler.CreateAccount up to its check: decode the body, refuse an empty id,
\* refuse an id whose statement the engine can read
CreateAccountCheck(h, body) ==
    /\ ~crashed
    /\ http[h].pc = "idle"
    /\ http' = [http EXCEPT ![h] =
          IF ~body.json THEN [pc |-> "done", id |-> "", balance |-> 0, code |-> 400]
          ELSE IF body.id = ""
          THEN [pc |-> "done", id |-> "", balance |-> body.balance, code |-> 400]
          ELSE IF EngineGetStatement(registry, transactions, body.id).err = NoError
          THEN [pc |-> "done", id |-> body.id, balance |-> body.balance, code |-> 409]
          ELSE [pc |-> "register", id |-> body.id, balance |-> body.balance, code |-> 0]]
    /\ UNCHANGED <<ledgerVars, procVars, engVars, mu, svc, rwmu, reg, dec, auditMu, rd, acct>>

\* Handler.CreateAccount after its check: the account is made and registered,
\* and the answer is 201
CreateAccountRegister(h) ==
    /\ ~crashed
    /\ http[h].pc = "register"
    /\ registry' = Register(registry, NewBankAccount(http[h].id, http[h].balance))
    /\ http' = [http EXCEPT ![h] = [@ EXCEPT !.pc = "done", !.code = 201]]
    /\ UNCHANGED <<ledgerVars, procVars, onDone, auditLog, eng, obs, calls,
                   mu, svc, rwmu, reg, dec, auditMu, rd, acct>>

\* A method of an account is called through the BankAccount interface
AcctCall(op, recv, amount) ==
    /\ acct.pc = "idle"
    /\ acct.n < MaxInvocations
    /\ LET r == IF op = "Withdraw" THEN Withdraw(recv, amount) ELSE Deposit(recv, amount) IN
       acct' = [pc |-> "returned", n |-> acct.n + 1, op |-> op, recv |-> recv,
                amount |-> amount, acc |-> r.acc, err |-> r.err, after |-> r.recv,
                held |-> acct.held]
    /\ UNCHANGED <<ledgerVars, procVars, engVars, mu, svc, rwmu, reg, dec, auditMu, rd, http>>

\* the caller has the results and may call again
AcctReturn ==
    /\ acct.pc = "returned"
    /\ acct' = [acct EXCEPT !.pc = "idle"]
    /\ UNCHANGED <<ledgerVars, procVars, engVars, mu, svc, rwmu, reg, dec, auditMu, rd, http>>

\* The values a client holds, each with the account it descends from and the
\* number of successful calls on the way from that account to it.

\* NewBankAccount(id, balance), or NewAccountWithCounter of it: the client's
\* first value
HoldNew(origin) ==
    /\ acct.pc = "idle"
    /\ acct.held = << >>
    /\ acct' = [acct EXCEPT !.held = <<[acc |-> origin, origin |-> origin, ops |-> 0]>>]
    /\ UNCHANGED <<ledgerVars, procVars, engVars, mu, svc, rwmu, reg, dec, auditMu, rd, http>>

\* the client calls Withdraw or Deposit on a value it holds and keeps the
\* account returned; an AccountWithCounter receiver is left as the call
\* leaves it
HoldCall(i, op, amount) ==
    /\ acct.pc = "idle"
    /\ i \in 1 .. Len(acct.held)
    /\ Len(acct.held) < MaxHeld
    /\ LET recv == acct.held[i].acc
           r == IF op = "Withdraw" THEN Withdraw(recv, amount) ELSE Deposit(recv, amount)
       IN acct' = [acct EXCEPT
                     !.held = Append([@ EXCEPT ![i].acc = r.recv],
                                     [acc |-> r.acc, origin |-> acct.held[i].origin,
                                      ops |-> acct.held[i].ops
                                              + (IF r.err = NoError THEN 1 ELSE 0)])]
    /\ UNCHANGED <<ledgerVars, procVars, engVars, mu, svc, rwmu, reg, dec, auditMu, rd, http>>

-----------------------------------------------------------------------------
(* The accounts a client can hold: built by the package's constructors *)

AccountsOf(ids) ==
    LET plain ==
            {NewBankAccount(i, b) : i \in ids, b \in Balances}
            \cup {NewCheckingAccount(i, b, MaxOverdraft).acc : i \in ids, b \in Balances}
            \cup {NewSavingAccount(i, b, 1).acc : i \in ids, b \in Balances}
    IN plain
       \cup {NewAccountWithCounter(a) : a \in {p \in plain : p.kind # "savings"}}

TransferInputs == {Nil} \cup AccountsOf(TransferIDs)
StatementInputs == {Nil} \cup {NewBankAccount(i, b) : i \in AccountIDs, b \in Balances}

NoCall ==
    [op |-> "none", from |-> Nil, to |-> Nil, amount |-> 0, reference |-> "",
     newFrom |-> Nil, newTo |-> Nil, err |-> NoError, fromAfter |-> Nil,
     toAfter |-> Nil, list |-> << >>, null |-> TRUE, before |-> << >>]

-----------------------------------------------------------------------------
(* The ledger store driven by one client *)

LedgerInit ==
    /\ transactions = NewBankService
    /\ history = << >>
    /\ call = NoCall
    /\ NewProcessor(<< >>, 0)
    /\ NewEngine
    /\ NewConcurrentBankService
    /\ NewHandler

\* the client calls Transfer
CallTransfer ==
    /\ call.op = "none"
    /\ Len(history) < MaxTransfers
    /\ \E fromAccount \in TransferInputs, toAccount \in TransferInputs,
          amount \in Amounts, reference \in References :
         LET r == Transfer(transactions, fromAccount, toAccount, amount, reference) IN
         /\ transactions' = r.transactions
         /\ history' =
                IF r.err = NoError
                THEN Append(history, [from |-> ID(fromAccount), to |-> ID(toAccount),
                                      amount |-> amount, reference |-> reference])
                ELSE history
         /\ call' = [op |-> "Transfer", from |-> fromAccount, to |-> toAccount,
                     amount |-> amount, reference |-> reference,
                     newFrom |-> r.newFrom, newTo |-> r.newTo, err |-> r.err,
                     fromAfter |-> r.fromAfter, toAfter |-> r.toAfter,
                     list |-> << >>, null |-> TRUE, before |-> transactions]
    /\ UNCHANGED <<procVars, engVars, sideVars>>

\* the client calls GetStatement
CallGetStatement ==
    /\ call.op = "none"
    /\ \E account \in StatementInputs :
         LET r == GetStatement(transactions, account) IN
         call' = [NoCall EXCEPT !.op = "GetStatement", !.from = account,
                                !.fromAfter = account, !.err = r.err,
                                !.list = r.list, !.null = r.null,
                                !.before = transactions]
    /\ UNCHANGED <<transactions, history>>
    /\ UNCHANGED <<procVars, engVars, sideVars>>

\* the client has looked at what the call returned and goes on
Return ==
    /\ call.op # "none"
    /\ call' = NoCall
    /\ UNCHANGED <<transactions, history>>
    /\ UNCHANGED <<procVars, engVars, sideVars>>

LedgerNext == CallTransfer \/ CallGetStatement \/ Return

Spec == LedgerInit /\ [][LedgerNext]_vars

-----------------------------------------------------------------------------
(* A processor with workers and the pipeline audit(validation(core)), one   *)
(* submitter per job: the jobs on their way through the pool                *)

JobReference(s) == "JOB-" \o ToString(s)

FromAccount == NewBankAccount("A", MaxBalance)
ToAccount == NewBankAccount("B", MaxBalance)

\* what submitter s may ask for: a transfer that succeeds (with and without a
\* context of its own, with and without a Done channel), one the balance does
\* not cover, one without a from account, one of a negative amount
JobsOf(s) ==
    { TransferJob(s, FromAccount, ToAccount, 1, JobReference(s), "chan", "nil"),
      TransferJob(s, FromAccount, ToAccount, 1, JobReference(s), "chan", "ctx"),
      TransferJob(s, FromAccount, ToAccount, 1, JobReference(s), "nil", "nil"),
      TransferJob(s, FromAccount, ToAccount, MaxBalance + 1, JobReference(s), "chan", "nil"),
      TransferJob(s, Nil, ToAccount, 1, JobReference(s), "chan", "nil"),
      TransferJob(s, FromAccount, ToAccount, -1, JobReference(s), "chan", "nil") }

ProcInit ==
    /\ transactions = NewBankService
    /\ history = << >>
    /\ call = NoCall
    /\ \E n \in 1 .. MaxWorkers : NewProcessor(<<"audit", "validation">>, n)
    /\ NewEngine
    /\ NewConcurrentBankService
    /\ NewHandler

ProcNext ==
    \/ Start
    \/ CancelParent
    \/ \E j \in JobIDs : CancelJob(j)
    \/ \E s \in Submitters : \E job \in JobsOf(s) : SubmitCheck(s, job)
    \/ \E s \in Submitters : SubmitEnqueue(s)
    \/ \E w \in WorkerIDs : WorkerExit(w)
    \/ \E w \in WorkerIDs : WorkerTake(w)
    \/ \E j \in JobIDs : PipelineInvoke(j)
    \/ \E j \in JobIDs : SinkAppend(j)
    \/ \E j \in JobIDs : PipelineClose(j)
    \/ \E w \in WorkerIDs : ProcessDone(w)
    \/ \E w \in WorkerIDs : ProcessTimeout(w)
    \/ \E w \in WorkerIDs : WorkerSend(w)

ProcSpec == ProcInit /\ [][ProcNext]_vars

-----------------------------------------------------------------------------
(* The same processor shut down: Start is called once, before any Stop (as  *)
(* cmd/api/main.go and the tests do), and Stop by several callers at once   *)

StopJobsOf(s) ==
    { TransferJob(s, FromAccount, ToAccount, 1, JobReference(s), "chan", "nil") }

StopNext ==
    \/ Start
    \/ CancelParent
    \/ \E s \in Submitters : \E job \in StopJobsOf(s) : SubmitCheck(s, job)
    \/ \E s \in Submitters : SubmitEnqueue(s)
    \/ \E w \in WorkerIDs : WorkerExit(w)
    \/ \E w \in WorkerIDs : WorkerTake(w)
    \/ \E j \in JobIDs : PipelineInvoke(j)
    \/ \E j \in JobIDs : SinkAppend(j)
    \/ \E j \in JobIDs : PipelineClose(j)
    \/ \E w \in WorkerIDs : ProcessDone(w)
    \/ \E w \in WorkerIDs : WorkerSend(w)
    \/ \E c \in Stoppers : StopCall(c)
    \/ \E c \in Stoppers : StopLock(c)
    \/ \E c \in Stoppers : StopClose(c)
    \/ \E c \in Stoppers : StopWait(c)

StopSpec == ProcInit /\ [][StopNext]_vars

-----------------------------------------------------------------------------
(* The engine as cmd/api/main.go builds it: a registry, a started processor *)
(* around CoreTransfer and callers of RegisterAccount, OnComplete and       *)
(* SubmitTransfer.  The callers are fewer than the queue has slots, so no   *)
(* Submit finds the queue full and SubmitWithRetry never retries here; the  *)
(* context of an engine job is never done.                                  *)

EngineAccounts == {NewBankAccount(i, MaxBalance) : i \in TransferIDs}
EngineAmounts == {0, 1, MaxBalance + 1}
EngineReference(s) == "ref-" \o ToString(s)

EngInit ==
    /\ transactions = NewBankService
    /\ history = << >>
    /\ call = NoCall
    /\ \E n \in 1 .. MaxWorkers : NewProcessor(<< >>, n)
    /\ NewEngine
    /\ NewConcurrentBankService
    /\ NewHandler

EngNext ==
    \/ Start
    \/ \E acc \in EngineAccounts : RegisterAccount(acc)
    \/ \E cb \in Callbacks \cup {NoCallback} : OnComplete(cb)
    \/ \E s \in Submitters : \E f \in EngineIDs, t \in EngineIDs, a \in EngineAmounts :
          SubmitTransferGetFrom(s, f, t, a, EngineReference(s))
    \/ \E s \in Submitters : SubmitTransferGetTo(s)
    \/ \E s \in Submitters : eng[s].pc = "submit" /\ SubmitCheck(s, eng[s].job)
    \/ \E s \in Submitters : eng[s].pc = "submit" /\ SubmitEnqueue(s)
    \/ \E s \in Submitters : SubmitWithRetryReturn(s)
    \/ \E s \in Submitters : SubmitTransferReturn(s)
    \/ \E w \in WorkerIDs : WorkerTake(w)
    \/ \E j \in JobIDs : PipelineInvoke(j)
    \/ \E j \in JobIDs : PipelineClose(j)
    \/ \E w \in WorkerIDs : ProcessDone(w)
    \/ \E w \in WorkerIDs : WorkerSend(w)
    \/ \E s \in Submitters : ObserverReceive(s)
    \/ \E s \in Submitters : ObserverCheck(s)
    \/ \E s \in Submitters : ObserverCall(s)
    \/ \E s \in Submitters : ObserverAudit(s)

EngSpec == EngInit /\ [][EngNext]_vars

-----------------------------------------------------------------------------
(* A processor without workers: nothing drains the queue, and the callers   *)
(* of Submit call it again and again with a fire-and-forget job             *)

FireAndForget == TransferJob(0, FromAccount, ToAccount, 1, "JOB-0", "nil", "nil")

QueueInit ==
    /\ transactions = NewBankService
    /\ history = << >>
    /\ call = NoCall
    /\ NewProcessor(<<"audit", "validation">>, 0)
    /\ NewEngine
    /\ NewConcurrentBankService
    /\ NewHandler

\* one caller of Stop is enough here
QueueNext ==
    \/ Start
    \/ \E s \in Submitters : SubmitCheck(s, FireAndForget)
    \/ \E s \in Submitters : SubmitEnqueue(s)
    \/ \E s \in Submitters : SubmitAgain(s)
    \/ StopCall(1)
    \/ StopLock(1)
    \/ StopClose(1)
    \/ StopWait(1)

QueueSpec == QueueInit /\ [][QueueNext]_vars

-----------------------------------------------------------------------------
(* Properties of the ledger store *)

\* the statement the map holds for an id (the nil list reads as empty)
StatementOf(txs, id) == IF id \in DOMAIN txs THEN txs[id] ELSE << >>

\* the statement of id is the old one with one transaction of the call appended
GrewByTheCall(id) ==
    LET old == StatementOf(call.before, id)
        new == StatementOf(transactions, id)
    IN /\ Len(new) = Len(old) + 1
       /\ SubSeq(new, 1, Len(old)) = old
       /\ new[Len(new)].from = ID(call.from)
       /\ new[Len(new)].to = ID(call.to)
       /\ new[Len(new)].amount = call.amount
       /\ new[Len(new)].reference = call.reference

TransferOfTwoAccounts ==
    /\ call.op = "Transfer"
    /\ call.from # Nil
    /\ call.to # Nil

\* C1: a Transfer between two present accounts with different ids, of an amount
\* >= 0 that the from-account's balance covers, succeeds; the returned accounts
\* have the balances old - amount and old + amount, and the statements of both
\* ids grow by exactly one transaction carrying the call's ids, amount and
\* reference.
C1_ValidTransferSucceeds ==
    ( /\ TransferOfTwoAccounts
      /\ ID(call.from) # ID(call.to)
      /\ call.amount >= 0
      /\ call.amount <= Balance(call.from) )
    => /\ call.err = NoError
       /\ ID(call.newFrom) = ID(call.from)
       /\ ID(call.newTo) = ID(call.to)
       /\ Balance(call.newFrom) = Balance(call.from) - call.amount
       /\ Balance(call.newTo) = Balance(call.to) + call.amount
       /\ GrewByTheCall(ID(call.from))
       /\ GrewByTheCall(ID(call.to))
       /\ \A id \in (DOMAIN transactions) \ {ID(call.from), ID(call.to)} :
             StatementOf(transactions, id) = StatementOf(call.before, id)

\* a positive amount moved between accounts that both had a statement already
C1_Witness ==
    /\ TransferOfTwoAccounts
    /\ call.err = NoError
    /\ call.amount > 0
    /\ call.amount <= Balance(call.from)
    /\ Len(StatementOf(call.before, ID(call.from))) = 1
    /\ Len(StatementOf(transactions, ID(call.to))) = 2

\* C2: a Transfer that returns an error leaves every statement as it was, leaves
\* the two accounts passed in as they were and returns no account.
C2_FailedTransferChangesNothing ==
    (call.op = "Transfer" /\ call.err # NoError)
    => /\ transactions = call.before
       /\ call.newFrom = Nil
       /\ call.newTo = Nil
       /\ call.fromAfter = call.from
       /\ call.toAfter = call.to

\* C3: a Transfer between two accounts with the same id fails with
\* SelfTransferDisallowed whatever the amount and the balances, and records
\* nothing.
C3_SelfTransferDisallowed ==
    (TransferOfTwoAccounts /\ ID(call.from) = ID(call.to))
    => /\ Is(call.err, "ErrSelfTransferDisallowed")
       /\ transactions = call.before
       /\ call.newFrom = Nil
       /\ call.newTo = Nil

\* a self-transfer of a negative amount between two different handles of one id,
\* on a ledger that already holds transactions
C3_Witness ==
    /\ TransferOfTwoAccounts
    /\ ID(call.from) = ID(call.to)
    /\ call.from # call.to
    /\ call.amount < 0
    /\ Is(call.err, "ErrSelfTransferDisallowed")
    /\ Len(history) > 0

\* C4: a Transfer of a negative amount between two accounts with different ids
\* fails with the withdrawal error, whatever the types of the two accounts, and
\* changes neither a statement nor an account.
C4_NegativeAmountFailsAtWithdrawal ==
    ( /\ TransferOfTwoAccounts
      /\ ID(call.from) # ID(call.to)
      /\ call.amount < 0 )
    => /\ Is(call.err, "ErrFromAccountWithdrawal")
       /\ transactions = call.before
       /\ call.fromAfter = call.from
       /\ call.toAfter = call.to

\* the transfers of the history that id took part in, in order
RECURSIVE Recorded(_, _)
Recorded(h, id) ==
    IF h = << >> THEN << >>
    ELSE LET rest == Recorded(SubSeq(h, 1, Len(h) - 1), id)
             last == h[Len(h)]
         IN IF last.from = id \/ last.to = id THEN Append(rest, last) ELSE rest

\* C5: GetStatement fails with InvalidAccount exactly when the handle is nil;
\* for an id that took part in no successful transfer it returns an empty list
\* that is not null and no error; otherwise it returns the transactions recorded
\* for the id, in the order they were recorded.
C5_GetStatement ==
    (call.op = "GetStatement")
    => LET expected == Recorded(history, ID(call.from)) IN
       /\ (call.from = Nil) <=> Is(call.err, "ErrInvalidAccount")
       /\ (call.from = Nil) <=> (call.err # NoError)
       /\ call.from # Nil
          => /\ ~call.null
             /\ Len(call.list) = Len(expected)
             /\ \A i \in 1 .. Len(expected) :
                   /\ call.list[i].from = expected[i].from
                   /\ call.list[i].to = expected[i].to
                   /\ call.list[i].amount = expected[i].amount
                   /\ call.list[i].reference = expected[i].reference

\* the statement of an account with two different transactions is read
C5_Witness ==
    /\ call.op = "GetStatement"
    /\ call.err = NoError
    /\ Len(call.list) = 2
    /\ call.list[1] # call.list[2]
    /\ \E id \in AccountIDs : Recorded(history, id) = << >>

-----------------------------------------------------------------------------
(* The concurrent service called by several goroutines *)

SvcAccounts == {Nil, NewBankAccount("A", MaxBalance), NewBankAccount("B", 0)}

SvcInit ==
    /\ transactions = NewBankService
    /\ history = << >>
    /\ call = NoCall
    /\ NewProcessor(<< >>, 0)
    /\ NewEngine
    /\ NewConcurrentBankService
    /\ NewHandler

SvcNext ==
    \/ \E c \in SvcCallers, from \in SvcAccounts, to \in SvcAccounts :
           SvcLock(c, "Transfer", from, to, 1)
    \/ \E c \in SvcCallers, account \in SvcAccounts : SvcLock(c, "GetStatement", account, Nil, 0)
    \/ \E c \in SvcCallers : SvcEnter(c)
    \/ \E c \in SvcCallers : SvcInner(c)
    \/ \E c \in SvcCallers : SvcUnlock(c)

SvcSpec == SvcInit /\ [][SvcNext]_vars

-----------------------------------------------------------------------------
(* The registry called by several goroutines *)

RegAccounts ==
    {NewBankAccount("A", 0), NewBankAccount("A", MaxBalance), NewBankAccount("B", 0)}

RegInit == SvcInit

RegNext ==
    \/ \E c \in RegCallers, acc \in RegAccounts : RegisterLock(c, acc)
    \/ \E c \in RegCallers : RegisterStoreBegin(c)
    \/ \E c \in RegCallers : RegisterStoreEnd(c)
    \/ \E c \in RegCallers : RegisterUnlock(c)
    \/ \E c \in RegCallers, id \in AccountIDs : GetRLock(c, id)
    \/ \E c \in RegCallers : GetLoad(c)
    \/ \E c \in RegCallers : GetRUnlock(c)

RegSpec == RegInit /\ [][RegNext]_vars

-----------------------------------------------------------------------------
(* The decorators invoked by one client *)

\* the compositions the repository builds, outermost decorator first
Compositions ==
    {<< >>, <<"validation">>, <<"audit">>, <<"audit", "validation">>,
     <<"validation", "audit">>, <<"logging", "audit">>}

DecAccounts == {Nil, NewBankAccount("A", MaxBalance), NewBankAccount("B", 0)}

PipeInit == SvcInit

PipeNext ==
    \/ \E d \in Compositions, from \in DecAccounts, to \in DecAccounts, amount \in Amounts :
           DecInvoke(d, from, to, amount, "r1")
    \/ DecReturn

PipeSpec == PipeInit /\ [][PipeNext]_vars

-----------------------------------------------------------------------------
(* The retrying submit against a queue that another client fills *)

Caller == 1             \* the caller of SubmitTransfer
Filler == 2             \* the client that fills the queue

\* the job the filling client submits: the validation decorator rejects it
FillerJob == TransferJob(0, FromAccount, FromAccount, 1, "JOB-0", "nil", "nil")

RetryInit ==
    /\ transactions = NewBankService
    /\ history = << >>
    /\ call = NoCall
    /\ NewProcessor(<<"validation">>, 1)
    /\ NewEngine
    /\ NewConcurrentBankService
    /\ NewHandler

\* the filling client submits until it is told the queue is full; the caller
\* calls SubmitTransfer on an empty or on a full queue, after the filling
\* client's last submission; the processor is started after the call
RetryNext ==
    \/ eng[Caller].pc # "idle" /\ Start
    \/ \E acc \in EngineAccounts : RegisterAccount(acc)
    \/ /\ Len(jobs) \in {0, QueueCap}
       /\ sub[Filler].pc \in {"new", "done"}
       /\ SubmitTransferGetFrom(Caller, "A", "B", 1, EngineReference(Caller))
    \/ SubmitTransferGetTo(Caller)
    \/ eng[Caller].pc = "submit" /\ SubmitCheck(Caller, eng[Caller].job)
    \/ eng[Caller].pc = "submit" /\ SubmitEnqueue(Caller)
    \/ SubmitWithRetryAgain(Caller)
    \/ SubmitWithRetryReturn(Caller)
    \/ SubmitTransferReturn(Caller)
    \/ eng[Caller].pc = "idle" /\ SubmitCheck(Filler, FillerJob)
    \/ SubmitEnqueue(Filler)
    \/ eng[Caller].pc = "idle" /\ sub[Filler].result = NoError /\ SubmitAgain(Filler)
    \/ \E w \in WorkerIDs : WorkerExit(w)
    \/ \E w \in WorkerIDs : WorkerTake(w)
    \/ \E j \in JobIDs : PipelineInvoke(j)
    \/ \E j \in JobIDs : PipelineClose(j)
    \/ \E w \in WorkerIDs : ProcessDone(w)
    \/ \E w \in WorkerIDs : WorkerSend(w)
    \/ ObserverReceive(Caller)
    \/ ObserverCheck(Caller)
    \/ ObserverAudit(Caller)
    \/ StopCall(1)
    \/ StopLock(1)
    \/ StopClose(1)
    \/ StopWait(1)

RetrySpec == RetryInit /\ [][RetryNext]_vars

-----------------------------------------------------------------------------
(* The processor under fair scheduling of its goroutines *)

\* what submitter s may ask for here: a transfer with a Done channel of one
\* slot, with and without a context, one without a Done channel, one the
\* balance does not cover, and one whose Done channel has no buffer and no
\* receiver
LiveJobsOf(s) ==
    { TransferJob(s, FromAccount, ToAccount, 1, JobReference(s), "chan", "nil"),
      TransferJob(s, FromAccount, ToAccount, 1, JobReference(s), "chan", "ctx"),
      TransferJob(s, FromAccount, ToAccount, 1, JobReference(s), "nil", "nil"),
      TransferJob(s, FromAccount, ToAccount, MaxBalance + 1, JobReference(s), "chan", "nil"),
      TransferJob(s, FromAccount, ToAccount, 1, JobReference(s), "unread", "nil") }

LiveInit ==
    /\ transactions = NewBankService
    /\ history = << >>
    /\ call = NoCall
    /\ \E n \in 1 .. MaxWorkers : NewProcessor(<<"validation">>, n)
    /\ NewEngine
    /\ NewConcurrentBankService
    /\ NewHandler

LiveNext ==
    \/ Start
    \/ CancelParent
    \/ \E j \in JobIDs : CancelJob(j)
    \/ \E s \in Submitters : \E job \in LiveJobsOf(s) : SubmitCheck(s, job)
    \/ \E s \in Submitters : SubmitEnqueue(s)
    \/ \E w \in WorkerIDs : WorkerExit(w)
    \/ \E w \in WorkerIDs : WorkerTake(w)
    \/ \E j \in JobIDs : PipelineInvoke(j)
    \/ \E j \in JobIDs : PipelineClose(j)
    \/ \E w \in WorkerIDs : ProcessDone(w)
    \/ \E w \in WorkerIDs : ProcessTimeout(w)
    \/ \E w \in WorkerIDs : WorkerSend(w)

\* the scheduler runs every goroutine that can take a step: the workers and
\* the goroutines process() starts
LiveFairness ==
    /\ \A w \in WorkerIDs :
           /\ WF_vars(WorkerExit(w))
           /\ WF_vars(WorkerTake(w))
           /\ WF_vars(ProcessDone(w))
           /\ WF_vars(ProcessTimeout(w))
           /\ WF_vars(WorkerSend(w))
    /\ \A j \in JobIDs : WF_vars(PipelineInvoke(j)) /\ WF_vars(PipelineClose(j))

LiveSpec == LiveInit /\ [][LiveNext]_vars /\ LiveFairness

-----------------------------------------------------------------------------
(* The engine's audit log read while observers append to it *)

AuditInit ==
    /\ transactions = NewBankService
    /\ history = << >>
    /\ call = NoCall
    /\ NewProcessor(<< >>, 1)
    /\ NewEngine
    /\ NewConcurrentBankService
    /\ NewHandler

\* two transfers from A to B, one the balance covers and one it does not, no
\* completion callback
AuditNext ==
    \/ Start
    \/ \E acc \in EngineAccounts : RegisterAccount(acc)
    \/ \E s \in Submitters : SubmitTransferGetFrom(s, "A", "B", s, EngineReference(s))
    \/ \E s \in Submitters : SubmitTransferGetTo(s)
    \/ \E s \in Submitters : eng[s].pc = "submit" /\ SubmitCheck(s, eng[s].job)
    \/ \E s \in Submitters : eng[s].pc = "submit" /\ SubmitEnqueue(s)
    \/ \E s \in Submitters : SubmitWithRetryReturn(s)
    \/ \E s \in Submitters : SubmitTransferReturn(s)
    \/ \E w \in WorkerIDs : WorkerTake(w)
    \/ \E j \in JobIDs : PipelineInvoke(j)
    \/ \E j \in JobIDs : PipelineClose(j)
    \/ \E w \in WorkerIDs : ProcessDone(w)
    \/ \E w \in WorkerIDs : WorkerSend(w)
    \/ \E s \in Submitters : ObserverReceive(s)
    \/ \E s \in Submitters : ObserverCheck(s)
    \/ \E s \in Submitters : AuditLock(s)
    \/ \E s \in Submitters : AuditAppendBegin(s)
    \/ \E s \in Submitters : AuditAppendEnd(s)
    \/ \E s \in Submitters : AuditUnlock(s)
    \/ \E c \in Readers : AuditLogLock(c)
    \/ \E c \in Readers : AuditLogCopy(c)
    \/ \E c \in Readers : AuditLogUnlock(c)
    \/ \E c \in Readers : CallerChanges(c)

AuditSpec == AuditInit /\ [][AuditNext]_vars

-----------------------------------------------------------------------------
(* The accounts' methods called by one client *)

AcctBalances == 0 .. MaxBalance + 1

\* accounts of every kind, with and without a counter
AcctReceivers ==
    LET plain ==
            {NewBankAccount(i, b) : i \in TransferIDs, b \in AcctBalances}
            \cup {NewCheckingAccount(i, b, MaxOverdraft).acc : i \in TransferIDs, b \in AcctBalances}
            \cup {NewSavingAccount(i, b, 1).acc : i \in TransferIDs, b \in AcctBalances}
    IN plain \cup {NewAccountWithCounter(a) : a \in plain}

AcctInit == SvcInit

AcctNext ==
    \/ \E recv \in AcctReceivers, amount \in Amounts : AcctCall("Withdraw", recv, amount)
    \/ \E recv \in AcctReceivers, amount \in Amounts : AcctCall("Deposit", recv, amount)
    \/ AcctReturn

AcctSpec == AcctInit /\ [][AcctNext]_vars

-----------------------------------------------------------------------------
(* The requests POST /accounts, handled concurrently *)

HttpInit == SvcInit

HttpNext ==
    \/ \E h \in Requests, body \in Bodies : CreateAccountCheck(h, body)
    \/ \E h \in Requests : CreateAccountRegister(h)

HttpSpec == HttpInit /\ [][HttpNext]_vars

-----------------------------------------------------------------------------
(* The chains of account values one client derives from a first account *)

\* base accounts opened with a balance that is not negative, with and without
\* a counter
HoldOrigins ==
    LET base == {NewBankAccount(i, b) : i \in TransferIDs, b \in AcctBalances}
    IN base \cup {NewAccountWithCounter(a) : a \in base}

HoldInit == SvcInit

HoldNext ==
    \/ \E origin \in HoldOrigins : HoldNew(origin)
    \/ \E i \in 1 .. MaxHeld, amount \in Amounts : HoldCall(i, "Withdraw", amount)
    \/ \E i \in 1 .. MaxHeld, amount \in Amounts : HoldCall(i, "Deposit", amount)

HoldSpec == HoldInit /\ [][HoldNext]_vars

-----------------------------------------------------------------------------
(* The processor's claims *)

\* nothing is left to do: every Submit has returned, the queue is empty, the
\* workers wait in their select and every pipeline goroutine has finished
Settled ==
    /\ jobs = << >>
    /\ \A w \in 1 .. workers : wk[w].pc = "select"
    /\ \A j \in JobIDs : pipe[j].pc \in {"none", "done"}

EntriesOf(s) == {i \in 1 .. Len(audit) : audit[i].Reference = JobReference(s)}

AllAccepted ==
    \A s \in Submitters :
        sub[s].pc = "done" /\ sub[s].result = NoError /\ sub[s].job.Done = "chan"

\* C6: when every submitter's job (each with a Done channel) was accepted by a
\* started processor that is neither stopped nor cancelled, then once nothing
\* is left to do - the pool has settled, or the process is gone - every job's
\* Done channel holds exactly one value and the audit sink holds exactly one
\* entry per job and no other.
C6_ExactlyOneSignalAndEntryPerJob ==
    (started /\ ~ctxDone /\ AllAccepted /\ (crashed \/ Settled)) =>
        /\ \A s \in Submitters : Len(done[s]) = 1
        /\ \A s \in Submitters : Cardinality(EntriesOf(s)) = 1
        /\ Len(audit) = Cardinality(Submitters)

\* C7: a Submit that begins after a call to Stop has returned ends with the
\* ProcessorStopped error, and its job is neither put in the queue nor taken
\* by a worker.
C7_SubmitAfterStopRejected ==
    \A s \in Submitters :
        (sub[s].pc # "new" /\ sub[s].late) =>
            /\ sub[s].pc = "done"
            /\ sub[s].result = ErrProcessorStopped
            /\ s \notin Queued
            /\ pipe[s].pc = "none"

C7_Witness ==
    \E s \in Submitters :
        sub[s].pc = "done" /\ sub[s].late /\ sub[s].result = ErrProcessorStopped

\* C8: when a call to Stop has returned (the context of Start not cancelled),
\* every job that was in the queue when that call was made has been run
\* through the pipeline and its Done channel has been written.
C8_QueuedJobsCompletedWhenStopReturns ==
    \A c \in Stoppers :
        (stop[c].pc = "returned" /\ ~ctxDone) =>
            \A j \in stop[c].queued : pipe[j].pc = "done" /\ Len(done[j]) = 1

\* C9: Submit never blocks: a caller in either of its selects can take its
\* step; a Submit that finds the stop signal open and a free slot puts its job
\* at the end of the queue and returns nil; one that finds the queue holding
\* QueueCap jobs returns QueueFull and leaves the queue as it is; the queue
\* never holds more than QueueCap jobs.
C9_SubmitNeverBlocks ==
    [][ /\ Len(jobs') <= QueueCap
        /\ \A s \in Submitters :
              /\ sub[s].pc = "new" => ENABLED SubmitCheck(s, FireAndForget)
              /\ sub[s].pc = "enqueue" => ENABLED SubmitEnqueue(s)
              /\ (sub[s].pc = "enqueue" /\ sub'[s].pc # "enqueue") =>
                     /\ sub'[s].pc = "done"
                     /\ IF Len(jobs) < QueueCap
                        THEN /\ jobs' = Append(jobs, sub[s].job)
                             /\ sub'[s].result = NoError
                        ELSE /\ Len(jobs) = QueueCap
                             /\ jobs' = jobs
                             /\ sub'[s].result = ErrQueueFull ]_vars

C9_Witness ==
    \E s \in Submitters :
        sub[s].pc = "done" /\ sub[s].result = ErrQueueFull /\ Len(jobs) = QueueCap

\* C10: the stop signal is never closed twice, and when a call to Stop has
\* returned - whether it ran the shutdown or found it running or done - the
\* signal has been closed exactly once and every worker loop that Start
\* launched has exited.
C10_StopOnceAndWaits ==
    /\ closes <= 1
    /\ \A c \in Stoppers :
          stop[c].pc = "returned" =>
              /\ closes = 1
              /\ stopCh = "closed"
              /\ wg = 0
              /\ \A w \in 1 .. workers : wk[w].pc = "exited"

C10_Witness ==
    /\ \A c \in Stoppers : stop[c].pc = "returned"
    /\ closes = 1
    /\ \E w \in 1 .. workers : wk[w].pc = "exited"

\* the workers that hold a job: between receiving it and writing its Done
Holding(j) == {w \in 1 .. workers : wk[w].pc \in {"process", "send"} /\ wk[w].job.n = j}

\* C11: a job a worker receives from the queue has not been received before
\* and is no longer in the queue; its pipeline goroutine is started once and
\* never restarted; at most one worker holds a job at a time, a worker about
\* to write a job's Done channel finds it never written, and no Done channel
\* ever holds more than one value.
C11_AtMostOnce ==
    [][ /\ \A w \in WorkerIDs :
              (wk[w].pc = "select" /\ wk'[w].pc = "process") =>
                  /\ pipe[wk'[w].job.n].pc = "none"
                  /\ wk'[w].job.n \notin {jobs'[i].n : i \in 1 .. Len(jobs')}
        /\ \A j \in JobIDs :
              /\ (pipe[j].pc # "none" /\ pipe[j].pc # "running") => pipe'[j].pc # "running"
              /\ Cardinality({w \in 1 .. workers :
                                 wk'[w].pc \in {"process", "send"} /\ wk'[w].job.n = j}) <= 1
              /\ Len(done'[j]) <= 1
        /\ \A w \in WorkerIDs :
              (wk'[w].pc = "send" /\ wk'[w].job.Done = "chan") =>
                  done'[wk'[w].job.n] = << >> ]_vars

C11_Witness ==
    /\ workers = 2
    /\ \A s \in Submitters : pipe[s].pc = "done" /\ Len(done[s]) = 1 /\ Holding(s) = {}

\* C12: no job takes the process, a worker or another job's result with it:
\* no goroutine panics; a worker leaves its loop only when the context of
\* Start is cancelled; what a job's Done channel holds is what the pipeline
\* returned for that job (its context not expired); and a job that asks for a
\* covered transfer between two accounts succeeds whatever the other jobs are.
C12_FailureStaysWithItsJob ==
    /\ ~crashed
    /\ \A w \in 1 .. workers : wk[w].pc = "exited" => ctxDone
    /\ \A s \in Submitters :
          (Len(done[s]) = 1 /\ s \notin cancelled) =>
              pipe[s].pc = "done" /\ done[s][1] = pipe[s].err
    /\ \A s \in Submitters :
          (pipe[s].pc = "done" /\ pipe[s].job.From = FromAccount
              /\ pipe[s].job.To = ToAccount /\ pipe[s].job.Amount = 1) =>
              pipe[s].err = NoError

-----------------------------------------------------------------------------
(* The engine's claims *)

\* the callback invocations and the audit-log entries of caller s's transfer
CallsOf(s) == {i \in 1 .. Len(calls) : calls[i].job.n = s}
LoggedOf(s) == {i \in 1 .. Len(auditLog) : auditLog[i].Reference = eng[s].reference}

Accepted(s) == eng[s].pc = "returned" /\ eng[s].err = NoError

\* C13: for a SubmitTransfer that returned nil, the observer never ends in a
\* panic; until it has received the job's result there is no callback
\* invocation and no audit entry for the transfer; a callback is invoked at
\* most once, with the job and the result the observer received; and when
\* the observer has finished, the audit log holds exactly one entry for the
\* transfer, with the call's ids, amount and reference and Success = (the
\* result is nil).
C13_CompletionObserved ==
    \A s \in Submitters :
        Accepted(s) =>
            /\ obs[s].pc # "panicked"
            /\ obs[s].pc \in {"waiting", "check"} =>
                   CallsOf(s) = {} /\ LoggedOf(s) = {}
            /\ Cardinality(CallsOf(s)) <= 1
            /\ \A i \in CallsOf(s) :
                   /\ calls[i].job = eng[s].job
                   /\ calls[i].err = obs[s].result
                   /\ calls[i].cb \in Callbacks
            /\ obs[s].pc = "done" =>
                   /\ Cardinality(LoggedOf(s)) = 1
                   /\ \A i \in LoggedOf(s) :
                          auditLog[i] =
                              EngineAuditEntry(eng[s].fromID, eng[s].toID, eng[s].amount,
                                               eng[s].reference, obs[s].result)
                   /\ pipe[s].pc = "done" /\ obs[s].result = pipe[s].err

\* The boundary errors of SubmitTransfer for a call's arguments
BoundaryErrors(s) ==
    {WrapPrefix("from", ErrUnknownAccount), WrapPrefix("to", ErrUnknownAccount),
     ErrTransferToSelf, ErrInvalidAmount(eng[s].amount)}

\* C14: a SubmitTransfer call whose from id or to id is not registered, whose
\* ids are equal or whose amount is <= 0 returns a boundary error before
\* anything is submitted, and the returning step changes nothing but the
\* caller: no job enqueued, no observer, no callback, no audit entry, ledger
\* and registry as they were; a call that gets past the boundary has two
\* registered, different ids and a positive amount.
C14_RejectionTouchesNothing ==
    [][\A s \in Submitters :
          /\ (eng[s].pc \in {"idle", "getTo"} /\ eng'[s].pc = "returned") =>
                 /\ eng'[s].err \in BoundaryErrors(s)'
                 /\ UNCHANGED <<ledgerVars, procVars, registry, onDone, auditLog, obs, calls>>
                 /\ sub[s] = NewSubmitter /\ obs[s] = NoObserver
                 /\ \A i \in 1..Len(jobs) : jobs[i].n # s
          /\ (eng[s].pc = "getTo" /\ eng'[s].pc = "submit") =>
                 /\ eng[s].fromID \in DOMAIN registry /\ eng[s].toID \in DOMAIN registry
                 /\ eng[s].fromID # eng[s].toID
                 /\ eng[s].amount > 0
          /\ (eng[s].pc = "idle" /\ eng'[s].pc = "getTo") => eng'[s].fromID \in DOMAIN registry
      ]_vars

C14_Witness ==
    \E s, t \in Submitters :
        /\ eng[s].pc = "returned" /\ eng[s].err = ErrInvalidAmount(0)
        /\ Accepted(t) /\ obs[t].pc = "done"

\* C15: the engine keeps one callback, a later OnComplete replaces it, and a
\* completion invokes the callback registered at that moment: an observer
\* that found a callback registered still finds one when it calls it, so
\* that no observer calls a nil callback.
C15_CallbackReadIsSynchronized ==
    /\ onDone \in Callbacks \cup {NoCallback}
    /\ \A s \in Submitters :
           /\ obs[s].pc = "call" => onDone # NoCallback
           /\ obs[s].pc # "panicked"
    /\ \A i \in 1..Len(calls) : calls[i].cb \in Callbacks

\* the goroutines between c.mu.Lock() and the deferred c.mu.Unlock()
Holders == {c \in SvcCallers : svc[c].pc \in {"locked", "inside", "unlock"}}

\* C16: with every access going through ConcurrentBankService, at most one
\* Transfer or GetStatement is inside the inner store at any time (so the
\* store a call finds when it acts is the store it entered), and the lock is
\* released on every return path, failed calls included.
C16_OneCallInsideTheStore ==
    /\ Cardinality(Holders) <= 1
    /\ Holders = IF mu = 0 THEN {} ELSE {mu}
    /\ \A c \in SvcCallers :
           /\ svc[c].pc = "inside" => svc[c].entry = transactions
           /\ svc[c].pc = "returned" => mu # c

C16_Witness ==
    \E a, b, c \in SvcCallers :
        /\ svc[a].pc = "returned" /\ svc[a].op = "Transfer" /\ svc[a].err = NoError
        /\ svc[b].pc = "returned" /\ svc[b].op = "Transfer" /\ svc[b].err # NoError
        /\ svc[c].pc = "inside" /\ svc[c].op = "GetStatement" /\ mu = c

\* the Register calls that have stored an entry for id
StoredFor(id) == {c \in RegCallers : reg[c].seq > 0 /\ reg[c].id = id}

\* the entry of the last of them
Latest(id) ==
    LET c == CHOOSE x \in StoredFor(id) : \A y \in StoredFor(id) : reg[y].seq <= reg[x].seq
    IN reg[c].acc

\* C17: Get(id) fails with ErrUnknownAccount exactly when no Register for id
\* has happened and otherwise returns the entry registered last, so that no
\* entry is ever removed; a Register holds the mutex alone, and a concurrent
\* Get returns either "unknown" or a whole entry some Register stored for
\* that id, never a map that is being changed.
C17_RegistryGet ==
    /\ \A id \in AccountIDs :
           IF StoredFor(id) = {}
           THEN Get(registry, id) = [acc |-> Nil, err |-> ErrUnknownAccount]
           ELSE Get(registry, id) = [acc |-> Latest(id), err |-> NoError]
    /\ Cardinality(Writers) <= 1
    /\ Writers = IF rwmu.w = 0 THEN {} ELSE {rwmu.w}
    /\ rwmu.w # 0 => rwmu.r = {}
    /\ \A c \in RegCallers :
           /\ reg[c].pc \in {"rlocked", "runlock"} <=> c \in rwmu.r
           /\ ~reg[c].torn
           /\ reg[c].pc = "runlock" =>
                  [acc |-> reg[c].got, err |-> reg[c].err] = Get(registry, reg[c].id)
           /\ (reg[c].op = "Get" /\ reg[c].pc = "returned") =>
                  \/ reg[c].err = ErrUnknownAccount /\ reg[c].got = Nil
                  \/ /\ reg[c].err = NoError
                     /\ \E w \in StoredFor(reg[c].id) : reg[w].acc = reg[c].got

C17_Witness ==
    \E a, b, c \in RegCallers :
        /\ reg[a].pc = "returned" /\ reg[a].seq = 1 /\ reg[a].id = "A"
        /\ reg[b].pc = "returned" /\ reg[b].seq = 2 /\ reg[b].id = "A" /\ reg[b].acc # reg[a].acc
        /\ reg[c].pc = "returned" /\ reg[c].op = "Get" /\ reg[c].got = reg[b].acc

-----------------------------------------------------------------------------
(* The decorators' claims *)

\* what the function a decorator wraps returns for the invocation in dec
Wrapped == RunPipeline(Tail(dec.decorators), dec.before, dec.from, dec.to, dec.amount,
                       dec.reference)

\* the invocation in dec gave back what the wrapped function returns
SameAsWrapped(after) ==
    /\ dec.err = Wrapped.err /\ dec.newFrom = Wrapped.newFrom /\ dec.newTo = Wrapped.newTo
    /\ after = Wrapped.transactions

\* the arguments of the invocation in dec
DecArguments ==
    [from |-> dec.from, to |-> dec.to, amount |-> dec.amount, reference |-> dec.reference]

\* C18: the validation decorator returns ErrNilAccount when from or to is
\* nil, else ErrSelfTransferDisallowed when the ids are equal, else
\* ErrNegativeAmount when amount < 0, each with nil accounts and without
\* invoking the wrapped function; otherwise it invokes the wrapped function
\* once with the same arguments and returns its results.
C18_ValidationDecorator ==
    (dec.pc = "returned" /\ dec.decorators # << >> /\ Head(dec.decorators) = "validation") =>
        LET rejection ==
                IF dec.from = Nil \/ dec.to = Nil THEN ErrNilAccount
                ELSE IF ID(dec.from) = ID(dec.to) THEN ErrSelfTransferDisallowed
                ELSE IF dec.amount < 0 THEN ErrNegativeAmount
                ELSE NoError
        IN IF rejection # NoError
           THEN /\ dec.err = rejection /\ dec.newFrom = Nil /\ dec.newTo = Nil
                /\ dec.invoked = << >> /\ transactions = dec.before
           ELSE /\ dec.invoked = <<DecArguments>>
                /\ SameAsWrapped(transactions)

C18_Witness ==
    /\ dec.pc = "returned" /\ dec.decorators = <<"validation">> /\ dec.n = 2
    /\ dec.from # Nil /\ dec.to # Nil /\ dec.err = ErrNegativeAmount /\ dec.invoked = << >>
    /\ dec.before # NewBankService

\* C19: every invocation of an audit-decorated transfer, whatever its
\* arguments and whether the wrapped function succeeds or fails, calls the
\* sink once, after the wrapped function has returned, with the entry of the
\* two ids, the amount, the reference and Success = (the error is nil), and
\* returns the wrapped function's results.
C19_AuditDecorator ==
    (dec.pc # "idle" /\ dec.decorators # << >> /\ Head(dec.decorators) = "audit") =>
        /\ dec.pc = "returned"
        /\ dec.entries = <<AuditEntry(dec.from, dec.to, dec.amount, dec.reference, Wrapped.err)>>
        /\ SameAsWrapped(transactions)

-----------------------------------------------------------------------------
(* The retrying submit's claim *)

\* how many times the caller's job is in the processor: in the queue, or taken
Copies ==
    Cardinality({i \in 1 .. Len(jobs) : jobs[i].n = Caller})
    + (IF pipe[Caller].pc # "none" THEN 1 ELSE 0)

-----------------------------------------------------------------------------
(* The processor's claims about progress *)

\* the worker goroutines Start has launched
Launched == {w \in WorkerIDs : started /\ w <= workers}

\* C21: once the context passed to Start is cancelled, every worker loop
\* eventually exits, whatever jobs were submitted.
C21_WorkersExitAfterCancel ==
    ctxDone ~> (\A w \in Launched : wk[w].pc = "exited")

-----------------------------------------------------------------------------
(* The ledger store behind the concurrent service *)

\* the callers whose Transfer completes inside the store in this step
Completing ==
    {c \in SvcCallers : svc[c].pc = "inside" /\ svc'[c].pc = "unlock"
                         /\ svc[c].op = "Transfer" /\ svc'[c].err = NoError}

\* C22: the statement of every account only grows at its end: what
\* GetStatement returns later has what it returned earlier as a prefix,
\* nothing is removed or reordered, and an entry is added exactly when a
\* Transfer completes inside the serialized store, so that the entries are
\* in the order of completion.
C22_StatementsAppendOnly ==
    [][\A id \in AccountIDs :
          LET old == GetStatement(transactions, NewBankAccount(id, 0)).list
              new == GetStatement(transactions', NewBankAccount(id, 0)).list
          IN /\ Len(new) >= Len(old)
             /\ SubSeq(new, 1, Len(old)) = old
             /\ Len(new) <= Len(old) + 1
             /\ Len(new) = Len(old) + 1 =>
                    \E c \in Completing :
                        /\ id \in {ID(svc[c].from), ID(svc[c].to)}
                        /\ new[Len(new)].reference = "SVC-" \o ToString(c)
             /\ \A c \in Completing :
                    id \in {ID(svc[c].from), ID(svc[c].to)} => Len(new) = Len(old) + 1
      ]_vars

C22_Witness ==
    /\ "A" \in DOMAIN transactions /\ Len(transactions["A"]) = 2
    /\ transactions["A"][1].reference = "SVC-2"
    /\ transactions["A"][2].reference = "SVC-1"
    /\ svc[3].pc = "inside" /\ svc[3].op = "GetStatement"

-----------------------------------------------------------------------------
(* The audit log's claim *)

\* the goroutines between auditMu.Lock() and auditMu.Unlock()
AuditHolders ==
    {<<"observer", s>> : s \in {x \in Submitters : obs[x].pc \in {"appending", "writing", "unlock"}}}
    \cup {<<"reader", c>> : c \in {x \in Readers : rd[x].pc \in {"locked", "copied"}}}

IsPrefix(a, b) == Len(a) <= Len(b) /\ SubSeq(b, 1, Len(a)) = a

\* C23: the audit log changes only by an append made under auditMu, which
\* one goroutine holds at a time; what AuditLog hands out is a copy taken
\* under the same lock: a whole prefix of the log, never read while an entry
\* is being written, not changed by later appends, and the log is not
\* changed when the caller writes to the slice it got.
C23_AuditLogSnapshots ==
    [][/\ IsPrefix(auditLog, auditLog')
       /\ auditLog' # auditLog =>
              \E s \in Submitters : auditMu = <<"observer", s>> /\ obs[s].pc = "writing"
       /\ AuditHolders' = IF auditMu' = << >> THEN {} ELSE {auditMu'}
       /\ \A c \in Readers :
              /\ ~rd'[c].torn
              /\ (rd[c].pc \in {"copied", "returned"} /\ ~rd'[c].changed) =>
                     rd'[c].out = rd[c].out
              /\ (rd'[c].pc \in {"copied", "returned"} /\ ~rd'[c].changed) =>
                     IsPrefix(rd'[c].out, auditLog')
      ]_vars

C23_Witness ==
    \E c \in Readers :
        /\ rd[c].pc = "returned" /\ rd[c].changed /\ Len(rd[c].out) = 1
        /\ Len(auditLog) = 2 /\ auditLog[1].Reference # "changed"
        /\ \E i \in 1..2 : ~auditLog[i].Success

-----------------------------------------------------------------------------
(* The accounts' claim *)

\* C24: on a base account with balance b, Withdraw(a) fails with the
\* negative-amount error if a < 0 and with ErrInsufficientFunds if a > b, and
\* otherwise returns a new account with the same id and balance b - a;
\* Deposit(a) fails with the negative-amount error if a < 0 and otherwise
\* returns a new account with the same id and balance b + a; a failure
\* returns the account as it was, and the receiver keeps its balance.
C24_BaseAccountMethods ==
    (acct.pc = "returned" /\ acct.recv.kind = "base" /\ ~acct.recv.counted) =>
        LET b == acct.recv.balance
            a == acct.amount
        IN /\ acct.after = acct.recv
           /\ ID(acct.acc) = ID(acct.recv)
           /\ a < 0 => Is(acct.err, "ErrNegativeAmount") /\ acct.acc = acct.recv
           /\ (acct.op = "Withdraw" /\ a > b) =>
                  acct.err = ErrInsufficientFunds /\ acct.acc = acct.recv
           /\ (acct.op = "Withdraw" /\ a >= 0 /\ a <= b) =>
                  acct.err = NoError /\ acct.acc = NewBankAccount(ID(acct.recv), b - a)
           /\ (acct.op = "Deposit" /\ a >= 0) =>
                  acct.err = NoError /\ acct.acc = NewBankAccount(ID(acct.recv), b + a)

C24_Witness ==
    /\ acct.pc = "returned" /\ acct.recv.kind = "base" /\ ~acct.recv.counted
    /\ acct.op = "Withdraw" /\ acct.amount = acct.recv.balance /\ acct.amount > 0
    /\ acct.err = NoError /\ Balance(acct.acc) = 0 /\ Balance(acct.after) > 0

-----------------------------------------------------------------------------
(* The HTTP handler's claim *)

\* C25: a request POST /accounts that is answered while its id is already
\* registered is answered 409, never 201, and leaves the registry as it was,
\* whatever other requests for the same id are being handled.
C25_CreateAccountConflict ==
    [][\A h \in Requests :
          (http[h].pc # "done" /\ http'[h].pc = "done"
           /\ http'[h].id \in DOMAIN registry) =>
             (http'[h].code = 409 /\ registry' = registry)]_vars

-----------------------------------------------------------------------------
(* The claim about process() *)

\* the result process() returned for job j, where a worker holds one
Returned(j) == {wk[w].err : w \in {v \in WorkerIDs : wk[v].pc = "send" /\ wk[v].job.n = j}}

\* a job without a context is never timed out
NoContextNoTimeout ==
    \A w \in WorkerIDs :
        (wk[w].pc = "send" /\ wk[w].job.Ctx = "nil") => wk[w].err # ErrJobTimeout

\* what is written to a job's channel is what process() returned, once: after
\* a timeout, the error of the abandoned invocation never gets there
AbandonedResultNotWritten ==
    [][\A j \in JobIDs :
          done'[j] # done[j] =>
              /\ done[j] = << >>
              /\ \E e \in Returned(j) : done'[j] = <<e>>]_vars

\* C26: a job whose context is done before its pipeline invocation has
\* finished gets the timeout error; a job whose invocation finishes before its
\* context is done (or that has no context) gets the invocation's own error;
\* a job without a context is never timed out; the result of an abandoned
\* invocation is never written to the job's channel.
C26_ProcessResult ==
    /\ \A j \in JobIDs :
           []((j \in cancelled /\ pipe[j].pc # "done") =>
                 [](Returned(j) \subseteq {ErrJobTimeout}))
    /\ \A j \in JobIDs :
           []((j \notin cancelled /\ pipe[j].pc = "done") =>
                 [](Returned(j) \subseteq {pipe[j].err}))
    /\ []NoContextNoTimeout
    /\ AbandonedResultNotWritten

-----------------------------------------------------------------------------
(* The claims about the worker loop *)

\* C27: a worker waits only in its select (for a job, the stop signal or the
\* parent's cancellation) and in process(); at the step after process(), the
\* write of the result to the job's channel, it can always go on, whatever job
\* Submit accepted.
C27_WorkerWaitsOnlyInSelect ==
    \A w \in WorkerIDs : wk[w].pc = "send" => ENABLED WorkerSend(w)

\* the jobs Submit has answered nil for
AcceptedJobs == {sub[s].job : s \in {r \in Submitters : sub[r].pc = "done" /\ sub[r].result = NoError}}

\* job has been run through the pipeline and, if it has a channel, one result
\* is in it
Served(job) ==
    /\ pipe[job.n].pc \in {"close", "done"}
    /\ job.Done # "nil" => Len(done[job.n]) = 1

\* C28: on a started processor whose parent context is not cancelled, every
\* job Submit answered nil for is eventually run through the pipeline and, if
\* it has a channel, gets one result written to it, and never a second one.
C28_AcceptedJobsAreServed ==
    /\ \A s \in Submitters :
           (started /\ sub[s].job \in AcceptedJobs) ~> (ctxDone \/ Served(sub[s].job))
    /\ [](\A j \in JobIDs : Len(done[j]) <= 1)

-----------------------------------------------------------------------------
(* The claim about the decorators' order *)

\* the error the validation decorator answers the last invocation with
DecRejection ==
    IF dec.from = Nil \/ dec.to = Nil THEN ErrNilAccount
    ELSE IF ID(dec.from) = ID(dec.to) THEN ErrSelfTransferDisallowed
    ELSE IF dec.amount < 0 THEN ErrNegativeAmount
    ELSE NoError

\* C29: for a call that validation rejects (a nil account, a transfer to the
\* same account, a negative amount), validation around audit hands no entry
\* to the sink, and audit around validation hands it one entry, with
\* Success = false and the validation error.
C29_DecoratorOrder ==
    (dec.pc # "idle" /\ DecRejection # NoError) =>
        /\ dec.decorators = <<"validation", "audit">> =>
               (dec.pc = "returned" /\ dec.entries = << >>)
        /\ dec.decorators = <<"audit", "validation">> =>
               /\ dec.pc = "returned"
               /\ Len(dec.entries) = 1
               /\ ~dec.entries[1].Success
               /\ dec.entries[1].Error = DecRejection

-----------------------------------------------------------------------------
(* The claim about the errors of Transfer *)

\* errors.Is(err, target) for every sentinel the cause matches
MatchesCause(err, cause) == \A name \in cause.is : Is(err, name)

\* C30: when the withdrawal of a Transfer fails, the error returned matches
\* ErrFromAccountWithdrawal and whatever the withdrawal's error matches
\* (ErrInsufficientFunds, ErrNegativeAmount); when the deposit fails, it
\* matches ErrToAccountDeposit and whatever the deposit's error matches.
C30_TransferWrapsTheCause ==
    (/\ call.op = "Transfer"
     /\ call.from # Nil /\ call.to # Nil
     /\ ~sameIdentifier(call.from, call.to)) =>
        LET w == Withdraw(call.from, call.amount)
            d == Deposit(call.to, call.amount)
        IN /\ w.err # NoError =>
                  Is(call.err, "ErrFromAccountWithdrawal") /\ MatchesCause(call.err, w.err)
           /\ (w.err = NoError /\ d.err # NoError) =>
                  Is(call.err, "ErrToAccountDeposit") /\ MatchesCause(call.err, d.err)

-----------------------------------------------------------------------------
(* The claim about the transactions' ids *)

\* C31: no statement holds two transactions with the same id: two successful
\* transfers, also between the same two accounts, get different ids.
C31_TransactionIDsUnique ==
    \A id \in DOMAIN transactions :
        \A i, k \in 1 .. Len(transactions[id]) :
            i # k => transactions[id][i].id # transactions[id][k].id

-----------------------------------------------------------------------------
(* The claims about chains of account values *)

\* C32: the Count of an AccountWithCounter is the number of successful
\* Deposit and Withdraw calls on the way from its NewAccountWithCounter origin
\* to it: failed calls do not raise it, and calls on other values do not
\* change it.
C32_CountIsChainLength ==
    \A i \in 1 .. Len(acct.held) :
        acct.held[i].acc.counted => acct.held[i].acc.count = acct.held[i].ops

\* C39: every account value derived from a base account opened with a balance
\* that is not negative, by Withdraw and Deposit calls that succeed or fail,
\* has a balance that is not negative and the id of that first account.
C39_BalanceNeverNegative ==
    \A i \in 1 .. Len(acct.held) :
        ~acct.held[i].origin.counted =>
            /\ Balance(acct.held[i].acc) >= 0
            /\ ID(acct.held[i].acc) = ID(acct.held[i].origin)

C39_Witness ==
    /\ Len(acct.held) = MaxHeld
    /\ ~acct.held[1].origin.counted
    /\ \E i, k \in 2 .. MaxHeld :
          /\ acct.held[i].ops = 2 /\ Balance(acct.held[i].acc) = 0
          /\ acct.held[k].ops = 0 /\ Balance(acct.held[k].acc) > 0

-----------------------------------------------------------------------------
(* The claim about the two sides of a transaction *)

\* how many times transaction t is in the statement of id
Occurrences(id, t) ==
    LET list == GetStatement(transactions, NewBankAccount(id, 0)).list
    IN Cardinality({i \in 1 .. Len(list) : list[i] = t})

\* the transactions in some statement
AllRecorded ==
    UNION {{transactions[id][i] : i \in 1 .. Len(transactions[id])} : id \in DOMAIN transactions}

\* the calls of Transfer through the concurrent service that have succeeded
Succeeded ==
    {c \in SvcCallers : svc[c].op = "Transfer" /\ svc[c].pc \in {"unlock", "returned"}
                         /\ svc[c].err = NoError}

\* C33: in every state of the ledger store that a call through the concurrent
\* service can see, a transaction from X to Y is in the statement of X as many
\* times as in the statement of Y, never under one only, and the statements
\* hold twice as many entries as transfers have succeeded.
C33_BothSidesRecorded ==
    /\ \A t \in AllRecorded :
          /\ Occurrences(t.from, t) = Occurrences(t.to, t)
          /\ Occurrences(t.from, t) >= 1
    /\ \A id \in DOMAIN transactions, t \in AllRecorded :
          Occurrences(id, t) > 0 => id \in {t.from, t.to}
    /\ LET RECURSIVE total(_)
           total(ids) ==
               IF ids = {} THEN 0
               ELSE LET id == CHOOSE x \in ids : TRUE
                    IN Len(transactions[id]) + total(ids \ {id})
       IN total(DOMAIN transactions) = 2 * Cardinality(Succeeded)

C33_Witness ==
    /\ Cardinality(Succeeded) = 2
    /\ \E c \in SvcCallers : svc[c].pc = "inside" /\ svc[c].op = "GetStatement"
    /\ Cardinality(AllRecorded) = 2

-----------------------------------------------------------------------------
(* The claims about the transfers submitted through the engine *)

RECURSIVE SumOf(_)
\* the sum of the amounts of a list of transactions
SumOf(list) == IF list = << >> THEN 0 ELSE Head(list).amount + SumOf(Tail(list))

\* the recorded transactions of id that leave it, and those that reach it
Outgoing(id) == SelectSeq(StatementOf(transactions, id), LAMBDA t : t.from = id)
Incoming(id) == SelectSeq(StatementOf(transactions, id), LAMBDA t : t.to = id)

\* C34: no registered base account is overdrawn by the transfers submitted
\* through SubmitTransfer: what its recorded outgoing transactions amount to
\* is at most its registered balance plus what its recorded incoming
\* transactions amount to.
C34_NeverOverdrawn ==
    \A id \in DOMAIN registry :
        SumOf(Outgoing(id)) <= Balance(registry[id]) + SumOf(Incoming(id))

\* the transfer submitted by s has succeeded
TransferSucceeded(s) ==
    Accepted(s) /\ pipe[s].pc \in {"close", "done"} /\ pipe[s].err = NoError

\* the statement of id holds a transaction with the ids of the call of s and
\* the amount and the reference given
RecordedAs(s, id, amount, reference) ==
    \E i \in 1 .. Len(StatementOf(transactions, id)) :
        LET t == transactions[id][i]
        IN /\ t.from = eng[s].fromID /\ t.to = eng[s].toID
           /\ t.amount = amount /\ t.reference = reference

\* C35: for a SubmitTransfer(fromID, toID, amount, reference) that was
\* accepted and then succeeded, both statements hold the transaction with the
\* submitted amount and the submitted reference, and the job the callback
\* gets carries that reference.
C35_AmountAndReferenceKept ==
    \A s \in Submitters :
        TransferSucceeded(s) =>
            /\ RecordedAs(s, eng[s].fromID, eng[s].amount, eng[s].reference)
            /\ RecordedAs(s, eng[s].toID, eng[s].amount, eng[s].reference)
            /\ \A i \in CallsOf(s) : calls[i].job.Reference = eng[s].reference

-----------------------------------------------------------------------------
(* The claim about the number of invocations at one time *)

\* the jobs whose goroutine, started by process(), has not yet come back from
\* p.pipeline
Executing == {j \in JobIDs : pipe[j].pc \in {"running", "sink"}}

\* C36: on a processor started with W workers, at most W invocations of the
\* pipeline are executing at the same time, also when jobs carry contexts
\* that are cancelled or time out.
C36_AtMostWInvocations ==
    started => Cardinality(Executing) <= workers

-----------------------------------------------------------------------------
(* The claim about the audit log and the ledger *)

RECURSIVE EntriesIn(_, _)
\* the number of statement entries of the accounts ids
EntriesIn(txs, ids) ==
    IF ids = {} THEN 0
    ELSE LET id == CHOOSE x \in ids : TRUE
         IN Len(txs[id]) + EntriesIn(txs, ids \ {id})

\* the audit entries that say Success
Successes == {i \in 1 .. Len(auditLog) : auditLog[i].Success}

\* no SubmitTransfer is under way and every observer started has appended
\* its entry
ObserversFinished ==
    \A s \in Submitters :
        eng[s].pc \in {"idle", "returned"} /\ obs[s].pc \in {"none", "done"}

\* C37: the audit log never holds more entries with Success = true than the
\* ledger holds transfers (each recorded under two accounts); when all
\* observers have finished the two numbers are equal, and every entry with
\* Success = false is of a transfer that recorded no transaction.
C37_AuditMatchesLedger ==
    /\ 2 * Cardinality(Successes) <= EntriesIn(transactions, DOMAIN transactions)
    /\ ObserversFinished =>
          /\ 2 * Cardinality(Successes) = EntriesIn(transactions, DOMAIN transactions)
          /\ \A s \in Submitters : \A i \in LoggedOf(s) :
                 ~auditLog[i].Success =>
                     /\ pipe[s].pc = "done" /\ pipe[s].err # NoError
                     /\ ~RecordedAs(s, eng[s].fromID, eng[s].amount, "")

C37_Witness ==
    /\ ObserversFinished
    /\ Len(auditLog) = 2
    /\ Cardinality(Successes) = 1
    /\ EntriesIn(transactions, DOMAIN transactions) = 2

-----------------------------------------------------------------------------
(* The claim about the audit logs of two engines *)

\* Two engines made by NewEngine over the same registry, processor and bank
\* service: goroutine x submits through, and reads the audit log of, engine x
EngineOf(x) == x

\* the references of the transfers submitted through engine e
SubmittedThrough(e) ==
    {eng[s].reference : s \in {x \in Submitters : EngineOf(x) = e /\ eng[x].pc # "idle"}}

\* C38: what AuditLog hands out on an engine are the entries of the transfers
\* submitted through that engine: none of a transfer submitted through the
\* other engine, and none at all on an engine nothing was submitted through.
C38_AuditLogPerEngine ==
    \A c \in Readers :
        rd[c].pc = "copied" =>
            \A i \in 1 .. Len(rd[c].out) :
                rd[c].out[i].Reference \in SubmittedThrough(EngineOf(c))

=============================================================================
